---- MODULE Spec2Model ----
(***************************************************************************)
(* A model of the SKYNET/OpenClaw gateway and local agent.                 *)
(*                                                                         *)
(*   Spec         the project Worker (orchestrator/worker.py,              *)
(*                agents/agent_worker.py): task loop, tool loop, pause and *)
(*                cancel flags, per-tool approval (bot/commands.py).       *)
(*   SpecChannel  the action dispatch path: the loopback HTTP API          *)
(*                (api.py), the channel to the local agent, the agent's    *)
(*                validator and the fallback executor.                     *)
(*   SpecLoop     one _conversation_loop of the Worker on its own.         *)
(*   SpecWatcher  one agent run of a task under the ManagerWatcherAgent    *)
(*                (agents/manager_watcher.py), with the progress callback. *)
(*   SpecPlans    the plans table (db/schema.py) of two projects through   *)
(*                plan generation, approval and the start of Worker.run.   *)
(*   SpecRate     the rate limit of the agent's validator                  *)
(*                (RATE_LIMIT_PER_MINUTE, openclaw-agent/config.py).       *)
(*   SpecLoopFree the same loop with no cap on the provider's responses.   *)
(*   SpecSkill    the project tools of the chat (skills/project_skill.py)  *)
(*                and the removal of a project (bot/commands.py).          *)
(*   SpecConfirms the pending confirmations of Tier-2 actions              *)
(*                (bot/state.py, bot/helpers.py, bot/commands.py).         *)
(*   SpecApprovals the worker's approval prompts and their buttons         *)
(*                (bot/commands.py).                                       *)
(*                                                                         *)
(* asyncio is cooperative: code between two awaits is atomic, so an action *)
(* of the model is the code from one suspension point to the next one at   *)
(* which another coroutine can change something the worker later reads.    *)
(***************************************************************************)
EXTENDS Integers, Sequences, FiniteSets, TLC

VARIABLES
    \* ---- durable store (db/schema.py) ----
    projectStatus,      \* projects.status
    taskStatus,         \* tasks.status of the active plan, by order_index
    events,             \* project_events rows added by the latest run, in order
    \* ---- configuration ----
    plan,               \* milestone name of each task of the active plan
    autoApproveGit,     \* cfg.AUTO_APPROVE_GIT_ACTIONS
    \* ---- the worker instance ----
    pc,                 \* the await the run is suspended at ("idle": no run)
    ti,                 \* i + 1 of `for i, task in enumerate(tasks)`
    currentMilestone,   \* current_milestone ("" is None)
    cancel,             \* cancel_event.is_set()
    pauseOpen,          \* pause_event.is_set()  (set = not paused)
    \* ---- _conversation_loop locals ----
    loopFor,            \* "task" (_execute_task) | "testing" (_final_testing)
    rounds, emptyCount, escalationIdx,
    recentSigs,         \* recent_tool_sigs[-3:]
    sigRounds,          \* the tool calls of the running loop's last three
                        \* responses (empty once the loop is left)
                        \* that had any, one list per response
    toolQueue,          \* tool calls of the current response not yet executed
    \* ---- worker approvals (bot/state.py, bot/commands.py) ----
    approvalCounter,    \* state._approval_counter
    approvalKey,        \* the key held by state._pending_approvals (0: empty)
    future,             \* the asyncio.Future of the newest approval request
    \* ---- history (observations the claims are stated on) ----
    lastTool,           \* the _execute_tool call of the current round, and
                        \* how it ended (NoTool before the first one)
    runs,               \* worker runs started so far
    budget,             \* provider responses that keep a loop going, left
    chats,              \* router.chat calls with tools made so far by the
                        \* current _conversation_loop
    cancelAt,           \* what the run was doing when cancel was signalled
    raised,             \* where the run's exception was raised
    \* ---- action dispatch channel ----
    agentConn,          \* is_agent_connected()
    conns,              \* the connection authenticated last and the one
                        \* before it, each "active", "superseded" or "closed"
    sshConfigured,      \* get_ssh_executor().is_configured()
    latch,              \* the agent's config.EMERGENCY_STOP
    wire,               \* gateway -> agent messages in flight, in order
    back,               \* agent -> gateway responses in flight, in order
    requests,           \* the POST /action requests accepted so far, and
                        \* the executor that ran each
    pending,            \* ids in the gateway's request_id -> future table
    outcomes,           \* per request: the outcomes its caller observed
    stopAck,            \* the 200 answer of the latest POST /emergency-stop
                        \* or POST /resume; "none" before any, and after a
                        \* POST /resume answered 503
    \* ---- a supervised agent run (agent_worker.py, manager_watcher.py) ----
    tpc,                \* position of _execute_task_with_agent ("none": no
                        \* task is being executed)
    delivered,          \* the on_progress calls made so far, with how each
                        \* ended
    watch,              \* position of heartbeat_loop ("off": not started)
    now,                \* time since heartbeat_loop started, in TimeUnit s
    wakeAt,             \* when the loop's wait_for or sleep expires
    stopSet,            \* stop_event.is_set()
    stopAt,             \* `now` when the run completed (-1 before)
    nudged,             \* heartbeat_loop's local flag
    \* ---- plans of several projects (db/schema.py) ----
    planTable,          \* the rows of `plans`, in id order
    projStatus,         \* projects.status of each project
    runPos,             \* per project and worker started for it: where
                        \* its Worker.run is before its try
    \* ---- the agent's validator: rate limit (openclaw-agent/config.py) ----
    rateClock,          \* the agent's clock, in RateUnit s
    rateWindow,         \* timestamps of the requests counted in the window
    acceptedAt,         \* per clock value: the requests that passed the
                        \* rate limit at that time
    lastDecision,       \* the validator's answer to the latest request, and
                        \* whether the 60 s before it held a full quota
    \* ---- the project tools (skills/project_skill.py, bot/state.py) ----
    projRows,           \* the rows of `projects`: id and name
    nextId,             \* the id the next created project gets
    lastProjectId,      \* state._last_project_id (0: None)
    ideaCount,          \* per project id: its rows in `ideas`
    addPending,         \* a project_add_idea suspended in pm.add_idea
    removePending,      \* a confirmed removal suspended in pm.remove_project
    lastResult,         \* what the latest project tool call returned
    \* ---- the bot's pending tables (bot/state.py, bot/commands.py) ----
    pclock,             \* time.monotonic(), in PendUnit s
    confirms,           \* _pending_confirms: key -> time it was stored
    confirmCounter,     \* state._confirm_counter
    lastConfirm,        \* the latest press on a CONFIRM prompt
    approvals,          \* _pending_approvals: key -> time it was stored
    wapprovalCounter,   \* state._approval_counter
    futures,            \* per key: the future request_worker_approval made
    waitStart,          \* per key: when its wait_for began
    returned,           \* per key: what request_worker_approval returned
    acks                \* per key: the acknowledgements shown on its prompt

workerVars == <<projectStatus, taskStatus, events, plan, autoApproveGit, pc,
                ti, currentMilestone, cancel, pauseOpen, loopFor, rounds,
                emptyCount, escalationIdx, recentSigs, toolQueue,
                sigRounds,
                approvalCounter, approvalKey, future, lastTool, runs, budget,
                chats, cancelAt, raised>>

channelVars == <<agentConn, conns, sshConfigured, latch, wire, back, requests,
                 pending, outcomes, stopAck>>

watcherVars == <<tpc, delivered, watch, now, wakeAt, stopSet, stopAt, nudged>>

planVars == <<planTable, projStatus, runPos>>

rateVars == <<rateClock, rateWindow, acceptedAt, lastDecision>>

skillVars == <<projRows, nextId, lastProjectId, ideaCount, addPending,
               removePending, lastResult>>

pendVars == <<pclock, confirms, confirmCounter, lastConfirm, approvals,
              wapprovalCounter, futures, waitStart, returned, acks>>

sideVars == <<watcherVars, planVars, rateVars, skillVars, pendVars>>

vars == <<workerVars, channelVars, sideVars>>

-----------------------------------------------------------------------------
(* Bounds of the model *)

MaxRuns == 2            \* worker runs on the same plan
MaxBudget == 2          \* empty or tool-call responses of the providers
MaxRequests == 1        \* POST /action requests
MaxTime == 14           \* time the watcher is followed for, in units of 10 s
MaxBeat == 1            \* longest store.heartbeat_agent_run, in units of 10 s
MaxPlans == 3           \* rows of the plans table
MaxWorkers == 2         \* workers started per project
MaxRateClock == 2       \* time the rate limiter is followed for, in RateUnit s
MaxIds == 3             \* project ids handed out
MaxIdeas == 1           \* ideas added per project id
MaxKeys == 2            \* prompts put up in each pending table
MaxPendClock == 7       \* time the pending tables are followed for
MaxWire == 1            \* control messages waiting on the connection

(* Program constants *)

MAX_TOOL_ROUNDS == 30
MAX_EMPTY_RETRIES == 3

ESCALATION_CHAIN == <<"ollama", "groq", "gemini", "claude">>

PLAN_AUTO_APPROVED ==
    {"file_write", "file_read", "list_directory", "create_directory",
     "git_init", "git_status", "git_add_all", "git_commit",
     "run_tests", "lint_project", "build_project", "install_dependencies",
     "open_in_vscode", "check_coding_agents", "run_coding_agent"}

ALWAYS_CONFIRM == {"git_push", "gh_create_repo"}

\* openclaw-agent/config.py
AUTO_ACTIONS ==
    {"git_status", "run_tests", "lint_project", "start_dev_server",
     "build_project"}

CONFIRM_ACTIONS ==
    {"git_commit", "install_dependencies", "file_write", "docker_build",
     "docker_compose_up"}

BLOCKED_ACTIONS ==
    {"shell_exec", "format_disk", "modify_registry", "manage_users",
     "firewall_change", "download_exec", "eval_code"}

EMERGENCY_STOP == FALSE

\* openclaw-agent/executor/actions.py: the names of ACTION_REGISTRY
ACTION_REGISTRY ==
    {"git_status", "web_search", "run_tests", "lint_project",
     "start_dev_server", "build_project", "file_read", "list_directory",
     "ollama_chat", "check_coding_agents",
     "git_commit", "install_dependencies", "file_write", "create_directory",
     "git_init", "git_add_all", "git_push", "gh_create_repo",
     "open_in_vscode", "run_coding_agent", "docker_build",
     "docker_compose_up", "close_app", "zip_project"}

(* Inputs: the plans a run is given and the tool calls a provider returns. *)

Plans == {<<"M1">>, <<"M1", "M2">>}

Sig(name, input) == <<name, input>>

ToolCallLists ==
    {<<Sig("file_write", 1)>>,
     <<Sig("git_push", 1)>>,
     <<Sig("web_search", 1)>>,
     <<Sig("docker_build", 1)>>,
     <<Sig("file_write", 1), Sig("file_write", 2)>>}

\* The bodies POST /action is called with, <<action, confirmed>>: an AUTO
\* action, a CONFIRM one, a registered one that has no tier, and one of
\* BLOCKED_ACTIONS, which the registry does not have.
ActionInputs ==
    {<<"git_status", FALSE>>, <<"git_commit", FALSE>>, <<"git_commit", TRUE>>,
     <<"git_push", TRUE>>, <<"shell_exec", TRUE>>}

NoTool == [tool |-> "none", via |-> "none", confirmed |-> FALSE, key |-> 0,
           answer |-> "none", cancelSet |-> FALSE, paused |-> FALSE]


-----------------------------------------------------------------------------
(* Helpers *)

configVars == <<plan, autoApproveGit>>
loopVars == <<rounds, emptyCount, escalationIdx, recentSigs, toolQueue,
              sigRounds>>
approvalVars == <<approvalCounter, approvalKey, future>>

Ev(type, arg) == [type |-> type, arg |-> arg]

NumTasks == Len(plan)

\* Worker._notify / AgentWorker._notify: store.add_event, then on_progress
\* with its exceptions swallowed.
Notify(log, type, arg) == Append(log, Ev(type, arg))

Last3(s) == IF Len(s) <= 3 THEN s ELSE SubSeq(s, Len(s) - 2, Len(s))

InSeq(x, s) == \E k \in 1..Len(s) : s[k] = x

\* Lines 101-122 of Worker.run: the events emitted when the task's milestone
\* differs from current_milestone.
MilestoneEvents(log, t) ==
    IF plan[t] # currentMilestone
    THEN Notify(IF currentMilestone # ""
                THEN Notify(log, "milestone_review", currentMilestone)
                ELSE log,
                "milestone_started", plan[t])
    ELSE log

\* The loop-detection pass over one response's tool calls
\* (_conversation_loop, "for tc in response.tool_calls" with its break).
RECURSIVE DetectLoops(_, _, _)
DetectLoops(calls, recent, esc) ==
    IF calls = <<>>
    THEN [recent |-> recent, esc |-> esc]
    ELSE LET sig == Head(calls)
             hit == InSeq(sig, Last3(recent))
             esc2 == IF hit THEN esc + 1 ELSE esc
         IN  IF hit /\ esc2 >= Len(ESCALATION_CHAIN)
             THEN [recent |-> recent, esc |-> esc2]
             ELSE DetectLoops(Tail(calls), Last3(Append(recent, sig)), esc2)

\* Worker._execute_tool, last branch: confirmed = tool_name in PLAN_AUTO_APPROVED
PlanConfirmed(name) == name \in PLAN_AUTO_APPROVED

ToolRecord(name, via, confirmed, key, answer) ==
    [tool |-> name, via |-> via, confirmed |-> confirmed, key |-> key,
     answer |-> answer, cancelSet |-> cancel, paused |-> ~pauseOpen]

-----------------------------------------------------------------------------
(* Worker.run / AgentWorker.run *)

\* A run is started: Worker(...).run() passes its two guards (project found,
\* active plan found) and is about to load the tasks.
StartRun ==
    /\ pc = "idle"
    /\ runs < MaxRuns
    /\ runs' = runs + 1
    /\ pc' = "setup"
    /\ cancel' = FALSE
    /\ pauseOpen' = TRUE
    /\ cancelAt' = "none"
    /\ raised' = "none"
    /\ ti' = 1
    /\ currentMilestone' = ""
    /\ events' = <<>>
    /\ lastTool' = NoTool
    /\ UNCHANGED sideVars
    /\ UNCHANGED <<channelVars, chats, projectStatus, taskStatus, configVars,
                   loopFor, loopVars, approvalVars, budget>>

\* get_tasks; update_project(status="coding"); _notify("started"). Worker.run
\* then enters its try block; AgentWorker.run first initialises the agents.
RunSetup(next) ==
    /\ pc = "setup"
    /\ projectStatus' = "coding"
    /\ events' = Notify(events, "started", "")
    /\ pc' = next
    /\ UNCHANGED sideVars
    /\ UNCHANGED <<channelVars, chats, taskStatus, configVars, ti,
                   currentMilestone, cancel, pauseOpen, loopFor, loopVars,
                   approvalVars, lastTool, runs, budget, cancelAt, raised>>

WorkerSetup == RunSetup("task_boundary")

AgentWorkerSetup == RunSetup("init_agents")

\* AgentWorker.run: agent records and agent memory are initialised for every
\* role of the plan, before the try block.
InitAgents ==
    /\ pc = "init_agents"
    /\ pc' = "task_boundary"
    /\ UNCHANGED sideVars
    /\ UNCHANGED <<channelVars, chats, projectStatus, taskStatus, events,
                   configVars, ti, currentMilestone, cancel, pauseOpen,
                   loopFor, loopVars, approvalVars, lastTool, runs, budget,
                   cancelAt, raised>>

\* An exception before the try block: store.add_event raising inside
\* _notify("started") (the status is already "coding"), or, in AgentWorker,
\* _get_or_create_agent / initialize_agent_memory raising. Nothing catches it.
PreTryRaises ==
    /\ pc \in {"setup", "init_agents"}
    /\ projectStatus' = "coding"
    /\ raised' = "pre_try"
    /\ pc' = "idle"
    /\ UNCHANGED sideVars
    /\ UNCHANGED <<channelVars, chats, taskStatus, events, configVars, ti,
                   currentMilestone, cancel, pauseOpen, loopFor, loopVars,
                   approvalVars, lastTool, runs, budget, cancelAt>>

\* The state _execute_task / _final_testing leave when they enter
\* _conversation_loop.
EnterLoop(what) ==
    /\ loopFor' = what
    /\ rounds' = 0
    /\ emptyCount' = 0
    /\ escalationIdx' = 0
    /\ recentSigs' = <<>>
    /\ sigRounds' = <<>>
    /\ toolQueue' = <<>>
    /\ chats' = 0
    /\ pc' = "loop_head"

\* Milestone bookkeeping, then _execute_task up to the tool loop: the task is
\* marked in_progress and task_started is emitted.
BeginTask(log) ==
    /\ taskStatus' = [taskStatus EXCEPT ![ti] = "in_progress"]
    /\ events' = Notify(MilestoneEvents(log, ti), "task_started", ToString(ti))
    /\ currentMilestone' = plan[ti]
    /\ EnterLoop("task")

\* for-loop head, cancel branch: emit cancelled, set the status, return.
TaskBoundaryCancel ==
    /\ pc = "task_boundary"
    /\ ti <= NumTasks
    /\ cancel
    /\ events' = Notify(events, "cancelled", "")
    /\ projectStatus' = "cancelled"
    /\ pc' = "idle"
    /\ UNCHANGED sideVars
    /\ UNCHANGED <<channelVars, chats, taskStatus, configVars, ti,
                   currentMilestone, cancel, pauseOpen, loopFor, loopVars,
                   approvalVars, lastTool, runs, budget, cancelAt, raised>>

\* for-loop head, pause branch: emit paused and wait on the gate.
TaskBoundaryPause ==
    /\ pc = "task_boundary"
    /\ ti <= NumTasks
    /\ ~cancel
    /\ ~pauseOpen
    /\ events' = Notify(events, "paused", "")
    /\ pc' = "pause_wait"
    /\ UNCHANGED sideVars
    /\ UNCHANGED <<channelVars, chats, projectStatus, taskStatus, configVars,
                   ti, currentMilestone, cancel, pauseOpen, loopFor, loopVars,
                   approvalVars, lastTool, runs, budget, cancelAt, raised>>

\* Variant of GateOpen: the wait returns whatever the gate is.
GateIgnored == TRUE

\* `await self.pause_event.wait()` returns once the event is set.
GateOpen == pauseOpen

\* pause_event.wait() returns: emit resumed and go on with the task.
PauseWaitResume ==
    /\ pc = "pause_wait"
    /\ GateOpen
    /\ BeginTask(Notify(events, "resumed", ""))
    /\ UNCHANGED sideVars
    /\ UNCHANGED <<channelVars, projectStatus, configVars, ti, cancel,
                   pauseOpen, approvalVars, lastTool, runs, budget, cancelAt,
                   raised>>

\* for-loop head, neither cancelled nor paused: the task starts.
TaskBoundaryStart ==
    /\ pc = "task_boundary"
    /\ ti <= NumTasks
    /\ ~cancel
    /\ pauseOpen
    /\ BeginTask(events)
    /\ UNCHANGED sideVars
    /\ UNCHANGED <<channelVars, projectStatus, configVars, ti, cancel,
                   pauseOpen, approvalVars, lastTool, runs, budget, cancelAt,
                   raised>>

\* After the last task: _final_testing emits testing and enters the tool loop.
FinalTesting ==
    /\ pc = "task_boundary"
    /\ ti > NumTasks
    /\ events' = Notify(events, "testing", "")
    /\ EnterLoop("testing")
    /\ UNCHANGED sideVars
    /\ UNCHANGED <<channelVars, projectStatus, taskStatus, configVars, ti,
                   currentMilestone, cancel, pauseOpen, approvalVars,
                   lastTool, runs, budget, cancelAt, raised>>

-----------------------------------------------------------------------------
(* Worker._conversation_loop *)

\* What follows the return of _conversation_loop. In _execute_task: messages
\* saved, the task marked completed, task_completed emitted, milestone_done
\* counted, next iteration of the for loop. In _final_testing: back in run,
\* the closing milestone_review, status completed, completed emitted.
LoopReturns ==
    IF loopFor = "task"
    THEN /\ taskStatus' = [taskStatus EXCEPT ![ti] = "completed"]
         /\ events' = Notify(events, "task_completed", ToString(ti))
         /\ ti' = ti + 1
         /\ pc' = "task_boundary"
         /\ UNCHANGED projectStatus
    ELSE /\ events' = Notify(IF currentMilestone # ""
                             THEN Notify(events, "milestone_review",
                                         currentMilestone)
                             ELSE events,
                             "completed", "")
         /\ projectStatus' = "completed"
         /\ pc' = "idle"
         /\ UNCHANGED <<taskStatus, ti>>

\* `except Exception` of run: status failed, error emitted.
HandleWorkerError ==
    /\ projectStatus' = "failed"
    /\ events' = Notify(events, "error", "")
    /\ pc' = "idle"

\* Variant of LoopContinues: the rounds are not counted against the limit.
LoopIgnoresRounds(r, c) == ~c

\* `while rounds < MAX_TOOL_ROUNDS:` followed by
\* `if self.cancel_event.is_set(): break`
LoopContinues(r, c) == r < MAX_TOOL_ROUNDS /\ ~c

\* while-loop head: leave the loop when the rounds are used up or cancel is
\* set (then the summary call is made), else call the router with tools.
LoopHead ==
    /\ pc = "loop_head"
    /\ pc' = IF LoopContinues(rounds, cancel)
             THEN "awaiting_llm" ELSE "summary"
    /\ chats' = IF LoopContinues(rounds, cancel)
                THEN chats + 1 ELSE chats
    /\ lastTool' = NoTool
    /\ UNCHANGED sideVars
    /\ UNCHANGED <<channelVars, projectStatus, taskStatus, events, configVars,
                   ti, currentMilestone, cancel, pauseOpen, loopFor, loopVars,
                   approvalVars, runs, budget, cancelAt, raised>>

\* Variant of EmptyEscalates: empty responses never advance the chain.
EmptyNeverEscalates(n) == FALSE

\* `if empty_count >= self._MAX_EMPTY_RETRIES`
EmptyEscalates(n) == n >= MAX_EMPTY_RETRIES

\* `preferred`: the provider router.chat is asked to prefer ("None" past the
\* end of the chain).
Preferred ==
    IF escalationIdx < Len(ESCALATION_CHAIN)
    THEN ESCALATION_CHAIN[escalationIdx + 1]
    ELSE "None"

\* The provider answers with neither text nor tool calls.
LLMEmpty ==
    /\ pc = "awaiting_llm"
    /\ budget > 0
    /\ budget' = budget - 1
    /\ IF EmptyEscalates(emptyCount + 1)
       THEN /\ escalationIdx' = escalationIdx + 1
            /\ emptyCount' = 0
            /\ pc' = IF escalationIdx + 1 >= Len(ESCALATION_CHAIN)
                     THEN "summary" ELSE "loop_head"
       ELSE /\ emptyCount' = emptyCount + 1
            /\ pc' = "loop_head"
            /\ UNCHANGED escalationIdx
    /\ UNCHANGED sideVars
    /\ UNCHANGED <<channelVars, chats, projectStatus, taskStatus, events,
                   configVars, ti, currentMilestone, cancel, pauseOpen,
                   loopFor, rounds, recentSigs, sigRounds, toolQueue,
                   approvalVars,
                   lastTool, runs, cancelAt, raised>>

\* The provider answers with text and no tool call: the loop returns it.
LLMText ==
    /\ pc = "awaiting_llm"
    /\ emptyCount' = 0
    /\ sigRounds' = <<>>
    /\ LoopReturns
    /\ UNCHANGED sideVars
    /\ UNCHANGED <<channelVars, chats, configVars, currentMilestone, cancel,
                   pauseOpen, loopFor, rounds, escalationIdx, recentSigs,
                   toolQueue, approvalVars, lastTool, runs, budget, cancelAt,
                   raised>>

\* The provider answers with tool calls: loop detection, then execution.
LLMToolCalls(calls) ==
    /\ pc = "awaiting_llm"
    /\ budget > 0
    /\ budget' = budget - 1
    /\ emptyCount' = 0
    /\ LET d == DetectLoops(calls, recentSigs, escalationIdx)
       IN  /\ recentSigs' = d.recent
           /\ sigRounds' = Last3(Append(sigRounds, calls))
           /\ escalationIdx' = d.esc
    /\ toolQueue' = calls
    /\ pc' = "exec_tools"
    /\ UNCHANGED sideVars
    /\ UNCHANGED <<channelVars, chats, projectStatus, taskStatus, events,
                   configVars, ti, currentMilestone, cancel, pauseOpen,
                   loopFor, rounds, approvalVars, lastTool, runs, cancelAt,
                   raised>>

\* router.chat raises (no provider available): the exception leaves
\* _conversation_loop and _execute_task / _final_testing and reaches the
\* except clause of run.
RouterRaises ==
    /\ pc \in {"awaiting_llm", "summary"}
    /\ raised' = loopFor
    /\ HandleWorkerError
    /\ UNCHANGED sideVars
    /\ sigRounds' = <<>>
    /\ UNCHANGED <<channelVars, chats, taskStatus, configVars, ti,
                   currentMilestone, cancel, pauseOpen, loopFor, rounds,
                   emptyCount, escalationIdx, recentSigs, toolQueue,
                   approvalVars, lastTool, runs, budget, cancelAt>>

\* The final call without tools answers: the loop returns its text.
SummaryResponse ==
    /\ pc = "summary"
    /\ sigRounds' = <<>>
    /\ LoopReturns
    /\ UNCHANGED sideVars
    /\ UNCHANGED <<channelVars, chats, configVars, currentMilestone, cancel,
                   pauseOpen, loopFor, rounds, emptyCount, escalationIdx,
                   recentSigs, toolQueue, approvalVars, lastTool, runs,
                   budget, cancelAt, raised>>

-----------------------------------------------------------------------------
(* Worker._execute_tool and the approval prompt *)

\* `if tool_name in ALWAYS_CONFIRM`
NeedsApproval(name) == name \in ALWAYS_CONFIRM

\* Variant of Approved: the answer of request_approval is not looked at.
ApprovedAnyAnswer(f) == f \in {"True", "False"}

\* `if not approved: return "... denied by the user."` -- the call goes on to
\* _send_to_agent only when request_approval returned True.
Approved(f) == f = "True"

\* request_worker_approval, first branch: AUTO_APPROVE_GIT_ACTIONS answers
\* True without asking.
AutoApproved(name) ==
    autoApproveGit /\ name \in {"git_push", "gh_create_repo"}

\* The tool result is appended; after the last call of the response the
\* tool_result turn is appended and rounds is incremented.
AdvanceQueue ==
    /\ toolQueue' = Tail(toolQueue)
    /\ IF Len(toolQueue) = 1
       THEN rounds' = rounds + 1 /\ pc' = "loop_head"
       ELSE rounds' = rounds /\ pc' = "exec_tools"

\* One iteration of `for tc in response.tool_calls: await _execute_tool(...)`.
ExecTool ==
    /\ pc = "exec_tools"
    /\ toolQueue # <<>>
    /\ LET name == Head(toolQueue)[1]
       IN  IF name = "web_search"
           THEN /\ lastTool' = ToolRecord(name, "searcher", FALSE, 0, "none")
                /\ AdvanceQueue
                /\ UNCHANGED approvalVars
           ELSE IF NeedsApproval(name) /\ ~AutoApproved(name)
           THEN /\ approvalCounter' = approvalCounter + 1
                /\ approvalKey' = approvalCounter + 1
                /\ future' = "pending"
                /\ lastTool' = ToolRecord(name, "prompt", FALSE,
                                          approvalCounter + 1, "none")
                /\ pc' = "awaiting_approval"
                /\ UNCHANGED <<toolQueue, rounds>>
           ELSE /\ lastTool' = ToolRecord(name, "agent",
                                          IF NeedsApproval(name) THEN TRUE
                                          ELSE PlanConfirmed(name),
                                          0, "none")
                /\ AdvanceQueue
                /\ UNCHANGED approvalVars
    /\ UNCHANGED sideVars
    /\ UNCHANGED <<channelVars, chats, projectStatus, taskStatus, events,
                   configVars, ti, currentMilestone, cancel, pauseOpen,
                   loopFor, emptyCount, escalationIdx, recentSigs,
                   sigRounds, runs,
                   budget, cancelAt, raised>>

\* wait_for(future) returns the operator's answer to request_approval's
\* caller: forward with confirmed=True, or return the denial string.
\* request_worker_approval, the prompt cannot be sent: the key is taken,
\* bot.send_message raises, and nothing between it and Worker.run's handler
\* catches the exception.  The future stored under the key has no button and
\* no waiter; it is not tracked.
ApprovalPromptRaises ==
    /\ pc = "exec_tools"
    /\ toolQueue # <<>>
    /\ LET name == Head(toolQueue)[1]
       IN  /\ NeedsApproval(name)
           /\ ~AutoApproved(name)
           /\ lastTool' = ToolRecord(name, "raised", FALSE,
                                     approvalCounter + 1, "none")
    /\ approvalCounter' = approvalCounter + 1
    /\ UNCHANGED <<approvalKey, future>>
    /\ raised' = loopFor
    /\ HandleWorkerError
    /\ UNCHANGED sideVars
    /\ UNCHANGED <<channelVars, chats, taskStatus, configVars, ti,
                   currentMilestone, cancel, pauseOpen, loopFor, loopVars,
                   runs, budget, cancelAt>>

ApprovalResult ==
    /\ pc = "awaiting_approval"
    /\ future \in {"True", "False"}
    /\ lastTool' = [lastTool EXCEPT
                      !.via = IF Approved(future) THEN "agent" ELSE "denied",
                      !.confirmed = Approved(future),
                      !.cancelSet = cancel,
                      !.paused = ~pauseOpen]
    /\ future' = "none"
    /\ AdvanceQueue
    /\ UNCHANGED sideVars
    /\ UNCHANGED <<channelVars, chats, projectStatus, taskStatus, events,
                   configVars, ti, currentMilestone, cancel, pauseOpen,
                   loopFor, emptyCount, escalationIdx, recentSigs,
                   sigRounds,
                   approvalCounter, approvalKey, runs, budget, cancelAt,
                   raised>>

\* wait_for times out after 300 s: the future is cancelled, the entry is
\* popped, request_worker_approval returns False.
ApprovalTimeout ==
    /\ pc = "awaiting_approval"
    /\ future = "pending"
    /\ approvalKey' = 0
    /\ future' = "none"
    /\ lastTool' = [lastTool EXCEPT !.via = "denied", !.answer = "expired"]
    /\ AdvanceQueue
    /\ UNCHANGED sideVars
    /\ UNCHANGED <<channelVars, chats, projectStatus, taskStatus, events,
                   configVars, ti, currentMilestone, cancel, pauseOpen,
                   loopFor, emptyCount, escalationIdx, recentSigs,
                   sigRounds,
                   approvalCounter, runs, budget, cancelAt, raised>>

\* handle_callback, "wapprove:<key>" / "wdeny:<key>": pop the entry and, if
\* the future is there and not done, resolve it.
PressButton(k, answer) ==
    /\ k \in 1..approvalCounter
    /\ LET live == k = approvalKey /\ future = "pending"
       IN  /\ approvalKey' = IF k = approvalKey THEN 0 ELSE approvalKey
           /\ future' = IF live
                        THEN (IF answer = "approve" THEN "True" ELSE "False")
                        ELSE future
           /\ lastTool' = IF live THEN [lastTool EXCEPT !.answer = answer]
                          ELSE lastTool
    /\ UNCHANGED sideVars
    /\ UNCHANGED <<channelVars, chats, projectStatus, taskStatus, events,
                   configVars, pc, ti, currentMilestone, cancel, pauseOpen,
                   loopFor, loopVars, approvalCounter, runs, budget, cancelAt,
                   raised>>

PressApprove(k) == PressButton(k, "approve")

PressDeny(k) == PressButton(k, "deny")

-----------------------------------------------------------------------------
(* The operator's controls on a running project *)

\* The awaits inside _conversation_loop and _execute_tool.
LoopPcs == {"loop_head", "awaiting_llm", "exec_tools", "awaiting_approval",
            "summary"}

\* The run is suspended at an await, so that another coroutine can run.
\* (Between a response with tool calls and its first _execute_tool there is
\* no await.)
\* The tools a planning response may name: the one PLANNING_TOOLS offers and
\* one it does not.
PlannerTools == {"web_search", "file_write"}

\* PlannerAgent.run_planning_conversation, one tool call of a response,
\* before the first run of the plan: web_search is sent to the agent with
\* confirmed = True, any other tool is answered "not available".
PlannerToolCall(name) ==
    /\ pc = "idle"
    /\ runs = 0
    /\ lastTool' = IF name = "web_search"
                   THEN ToolRecord(name, "agent", TRUE, 0, "none")
                   ELSE ToolRecord(name, "unavailable", FALSE, 0, "none")
    /\ UNCHANGED sideVars
    /\ UNCHANGED <<channelVars, chats, projectStatus, taskStatus, events,
                   configVars, pc, ti, currentMilestone, cancel, pauseOpen,
                   loopFor, loopVars, approvalVars, runs, budget, cancelAt,
                   raised>>

AtAwait == pc # "idle" /\ ~(pc = "exec_tools" /\ lastTool = NoTool)

\* cancel_project: cancel_event.set()
SetCancel ==
    /\ AtAwait
    /\ ~cancel
    /\ cancel' = TRUE
    /\ cancelAt' = IF pc \in LoopPcs THEN loopFor ELSE "boundary"
    /\ UNCHANGED sideVars
    /\ UNCHANGED <<channelVars, chats, projectStatus, taskStatus, events,
                   configVars, pc, ti, currentMilestone, pauseOpen, loopFor,
                   loopVars, approvalVars, lastTool, runs, budget, raised>>

\* pause_project: pause_event.clear()
PauseProject ==
    /\ AtAwait
    /\ pauseOpen
    /\ pauseOpen' = FALSE
    /\ UNCHANGED sideVars
    /\ UNCHANGED <<channelVars, chats, projectStatus, taskStatus, events,
                   configVars, pc, ti, currentMilestone, cancel, loopFor,
                   loopVars, approvalVars, lastTool, runs, budget, cancelAt,
                   raised>>

\* resume_project: pause_event.set()
ResumeProject ==
    /\ AtAwait
    /\ ~pauseOpen
    /\ pauseOpen' = TRUE
    /\ UNCHANGED sideVars
    /\ UNCHANGED <<channelVars, chats, projectStatus, taskStatus, events,
                   configVars, pc, ti, currentMilestone, cancel, loopFor,
                   loopVars, approvalVars, lastTool, runs, budget, cancelAt,
                   raised>>

-----------------------------------------------------------------------------
(* Specification of the worker *)

(***************************************************************************)
(* The action dispatch channel.  api.py is the HTTP surface; the gateway's *)
(* connection handling, the fallback executor and the agent's validator    *)
(* follow the specification (sections 4.1 and 4.2).                        *)
(***************************************************************************)

\* Variant of TierOf: a registered action without a tier is a CONFIRM one.
TierOfRegistered(name) ==
    IF name \in AUTO_ACTIONS THEN "AUTO"
    ELSE IF name \in CONFIRM_ACTIONS \/ name \in ACTION_REGISTRY THEN "CONFIRM"
    ELSE "BLOCKED"

\* Agent validator, step 4: tier classification.
TierOf(name) ==
    IF name \in AUTO_ACTIONS THEN "AUTO"
    ELSE IF name \in CONFIRM_ACTIONS THEN "CONFIRM"
    ELSE "BLOCKED"

\* Agent validator, steps 1, 3, 4 and 7 in order.  prompt is the operator's
\* answer if the agent prompts for a CONFIRM action ("none": no prompt, the
\* request is returned as requires_confirmation).
Validate(name, confirmed, stopped, prompt) ==
    IF stopped THEN "emergency_stop"
    ELSE IF name \notin ACTION_REGISTRY THEN "unknown_action"
    ELSE IF TierOf(name) = "BLOCKED" THEN "blocked"
    ELSE IF TierOf(name) = "AUTO" \/ confirmed \/ prompt = "approve"
         THEN "execute"
    ELSE IF prompt = "deny" THEN "denied"
    ELSE "requires_confirmation"

\* Variant of ActionReply: every outcome of send_action is answered as a
\* response.
ActionReplyAlwaysOk(outcome) == 200

\* handle_action: what the caller of POST /action receives for an outcome
\* of send_action.
ActionReply(outcome) ==
    IF outcome = "response" THEN 200
    ELSE IF outcome = "timeout" THEN 504
    ELSE 503

\* handle_action on the fallback path: the executor's result.
FallbackReply(status) == IF status = "error" THEN 503 ELSE 200

NewOutcome(id, outcome) ==
    [kind |-> outcome, http |-> ActionReply(outcome)]

\* All futures of the pending table fail with one transport error.
FailPending(why) ==
    [id \in DOMAIN outcomes |->
        IF id \in pending THEN Append(outcomes[id], NewOutcome(id, why))
        ELSE outcomes[id]]

\* Variant of Supersede: the connection already there is left open.
KeepPrior(cs) == cs

\* The connection already there, if any, is closed with reason "superseded".
Supersede(cs) ==
    [k \in DOMAIN cs |-> IF cs[k] = "active" THEN "superseded" ELSE cs[k]]

\* A connection authenticates; a connection already there is superseded.
AgentConnect ==
    /\ conns' = Append(Supersede(IF Len(conns) = 2 THEN Tail(conns)
                                  ELSE conns), "active")
    /\ agentConn' = TRUE
    /\ outcomes' = FailPending("superseded")
    /\ pending' = {}
    /\ wire' = <<>>
    /\ back' = <<>>
    /\ UNCHANGED <<sshConfigured, latch, requests, stopAck>>
    /\ UNCHANGED <<workerVars, sideVars>>

\* The connection drops.
AgentDisconnect ==
    /\ agentConn
    /\ agentConn' = FALSE
    /\ conns' = [k \in DOMAIN conns |->
                    IF conns[k] = "active" THEN "closed" ELSE conns[k]]
    /\ outcomes' = FailPending("agent_disconnected")
    /\ pending' = {}
    /\ wire' = <<>>
    /\ back' = <<>>
    /\ UNCHANGED <<sshConfigured, latch, requests, stopAck>>
    /\ UNCHANGED <<workerVars, sideVars>>

\* Variant of ExecutorFor: without an agent the fallback is always taken.
ExecutorAlwaysThere(connected, ssh) == IF connected THEN "agent" ELSE "ssh"

\* handle_action: the executor a well-formed request is served by.
ExecutorFor(connected, ssh) ==
    IF connected THEN "agent" ELSE IF ssh THEN "ssh" ELSE "none"

\* The bodies handle_action rejects: not JSON, JSON that is not an object,
\* an "action" field that is missing, empty or not a string.
BadBodies == {"invalid_json", "not_object", "bad_action"}

\* handle_action up to line 70: JSONDecodeError and a missing or non-string
\* action are answered 400; on a body that is not an object body.get raises
\* AttributeError, which no handler catches, and the server answers 500.
ParseReply(body) == IF body = "not_object" THEN 500 ELSE 400

\* POST /action with a body that is not well-formed: the handler returns
\* before it looks at the connection, so the request records none of it.
HandleMalformed(body) ==
    /\ Len(requests) < MaxRequests
    /\ requests' = Append(requests,
            [action |-> "", confirmed |-> FALSE, body |-> body,
             connected |-> FALSE, via |-> "none",
             stopped |-> "none", ran |-> "none"])
    /\ outcomes' = Append(outcomes,
            <<[kind |-> "malformed", http |-> ParseReply(body)]>>)
    /\ UNCHANGED <<agentConn, conns, sshConfigured, latch, wire, back, pending,
                   stopAck>>
    /\ UNCHANGED <<workerVars, sideVars>>

\* POST /action with a well-formed body.
HandleAction(action, confirmed, sshStatus) ==
    /\ Len(requests) < MaxRequests
    /\ LET id == Len(requests) + 1
           via == ExecutorFor(agentConn, sshConfigured)
           req == [action |-> action, confirmed |-> confirmed, body |-> "ok",
                   connected |-> agentConn, via |-> via,
                   stopped |-> stopAck,
                   ran |-> IF via = "ssh" /\ sshStatus = "ok" THEN "ssh"
                           ELSE "none"]
       IN /\ requests' = Append(requests, req)
          /\ IF via = "agent"
             THEN /\ sshStatus = "ok"
                  /\ pending' = pending \cup {id}
                  /\ wire' = Append(wire, [type |-> "action_request",
                                           id |-> id, conn |-> Len(conns)])
                  /\ outcomes' = Append(outcomes, <<>>)
             ELSE IF via = "ssh"
             THEN /\ outcomes' = Append(outcomes,
                        <<[kind |-> "fallback",
                           http |-> FallbackReply(sshStatus)]>>)
                  /\ UNCHANGED <<pending, wire>>
             ELSE /\ sshStatus = "ok"
                  /\ outcomes' = Append(outcomes,
                        <<[kind |-> "no_executor", http |-> 503]>>)
                  /\ UNCHANGED <<pending, wire>>
    /\ UNCHANGED <<agentConn, conns, sshConfigured, latch, back, stopAck>>
    /\ UNCHANGED <<workerVars, sideVars>>

\* POST /emergency-stop
HandleEmergencyStop ==
    /\ IF ~agentConn /\ sshConfigured
       THEN /\ stopAck' = "not_applicable_in_ssh_mode"
            /\ UNCHANGED wire
       ELSE IF ~agentConn
       THEN UNCHANGED <<stopAck, wire>>
       ELSE /\ Len(wire) < MaxWire
            /\ wire' = Append(wire, [type |-> "emergency_stop", id |-> 0,
                                     conn |-> Len(conns)])
            /\ stopAck' = "emergency_stop_sent"
    /\ UNCHANGED <<agentConn, conns, sshConfigured, latch, back, requests,
                   pending, outcomes>>
    /\ UNCHANGED <<workerVars, sideVars>>

\* POST /resume
HandleResume ==
    /\ IF ~agentConn /\ sshConfigured
       THEN /\ stopAck' = "resume_not_applicable"
            /\ UNCHANGED wire
       ELSE IF ~agentConn
       THEN /\ stopAck' = "none"
            /\ UNCHANGED wire
       ELSE /\ Len(wire) < MaxWire
            /\ wire' = Append(wire, [type |-> "resume", id |-> 0,
                                     conn |-> Len(conns)])
            /\ stopAck' = "resume_sent"
    /\ UNCHANGED <<agentConn, conns, sshConfigured, latch, back, requests,
                   pending, outcomes>>
    /\ UNCHANGED <<workerVars, sideVars>>

\* The agent reads the next message of its connection.
AgentReceive(prompt) ==
    /\ wire # <<>>
    /\ LET m == Head(wire)
       IN /\ wire' = Tail(wire)
          /\ IF m.type = "emergency_stop"
             THEN /\ prompt = "none"
                  /\ latch' = TRUE
                  /\ UNCHANGED <<back, requests>>
             ELSE IF m.type = "resume"
             THEN /\ prompt = "none"
                  /\ latch' = FALSE
                  /\ UNCHANGED <<back, requests>>
             ELSE LET r == requests[m.id]
                      d == Validate(r.action, r.confirmed, latch, prompt)
                  IN /\ prompt # "none"
                        => (d \in {"execute", "denied"} /\ ~r.confirmed
                            /\ TierOf(r.action) = "CONFIRM")
                     /\ back' = Append(back, [id |-> m.id, decision |-> d])
                     /\ requests' = IF d = "execute"
                                    THEN [requests EXCEPT
                                            ![m.id].ran = "agent"]
                                    ELSE requests
                     /\ UNCHANGED latch
    /\ UNCHANGED <<agentConn, conns, sshConfigured, pending, outcomes,
                   stopAck>>
    /\ UNCHANGED <<workerVars, sideVars>>

\* The gateway reads an action_response: the future of its request_id
\* resolves; a response for an evicted id is dropped.
GatewayReceive ==
    /\ back # <<>>
    /\ LET m == Head(back)
       IN /\ back' = Tail(back)
          /\ IF m.id \in pending
             THEN /\ pending' = pending \ {m.id}
                  /\ outcomes' = [outcomes EXCEPT ![m.id] =
                        Append(@, NewOutcome(m.id, "response"))]
             ELSE UNCHANGED <<pending, outcomes>>
    /\ UNCHANGED <<agentConn, conns, sshConfigured, latch, wire, requests,
                   stopAck>>
    /\ UNCHANGED <<workerVars, sideVars>>

\* The 120 s wait of a pending request expires; its entry is evicted.
ActionTimeout(id) ==
    /\ id \in pending
    /\ pending' = pending \ {id}
    /\ outcomes' = [outcomes EXCEPT ![id] =
            Append(@, NewOutcome(id, "timeout"))]
    /\ UNCHANGED <<agentConn, conns, sshConfigured, latch, wire, back,
                   requests, stopAck>>
    /\ UNCHANGED <<workerVars, sideVars>>

ChannelInit(ssh) ==
    /\ agentConn = FALSE
    /\ conns = <<>>
    /\ sshConfigured = ssh
    /\ latch = EMERGENCY_STOP
    /\ wire = <<>>
    /\ back = <<>>
    /\ requests = <<>>
    /\ pending = {}
    /\ outcomes = <<>>
    /\ stopAck = "none"

-----------------------------------------------------------------------------
(* A supervised agent run: AgentWorker._execute_task_with_agent executes   *)
(* one task while ManagerWatcherAgent.heartbeat_loop watches it.  Time is  *)
(* counted in units of 10 s.                                               *)

HEARTBEAT_INTERVAL == 2     \* interval_seconds = 20.0
NUDGE_AFTER == 12           \* nudge_after_seconds = 120.0

CallbackOutcomes == {"ok", "raises"}

\* Variant of AfterCallback: an exception of the callback reaches the caller.
CallbackPropagates(outcome, next) ==
    IF outcome = "raises" THEN "aborted" ELSE next

\* _notify, lines 3-6: `try: await self.on_progress(...) except Exception:
\* logger.exception(...)`: whatever the callback does, _notify returns and
\* its caller goes on.
AfterCallback(outcome, next) == next

Count(log, type) == Cardinality({k \in DOMAIN log : log[k].type = type})

\* _execute_task_with_agent up to the callback of task_started: the task is
\* marked in_progress and the event is persisted.
TaskStart ==
    /\ tpc = "none"
    /\ taskStatus[1] = "pending"
    /\ taskStatus' = [taskStatus EXCEPT ![1] = "in_progress"]
    /\ events' = Append(events, Ev("task_started", "1"))
    /\ tpc' = "notify_started"
    /\ UNCHANGED <<delivered, watch, now, wakeAt, stopSet, stopAt, nudged>>
    /\ UNCHANGED <<planVars, rateVars, skillVars, pendVars>>
    /\ UNCHANGED <<projectStatus, configVars, pc, ti, currentMilestone, cancel,
                   pauseOpen, loopFor, loopVars, approvalVars, lastTool, runs,
                   budget, chats, cancelAt, raised>>
    /\ UNCHANGED channelVars

\* The second half of a _notify: the callback is called for the event the
\* first half persisted.
NotifyDeliver(outcome) ==
    /\ tpc \in {"notify_started", "notify_completed"}
    /\ delivered' = Append(delivered,
            [type |-> IF tpc = "notify_started" THEN "task_started"
                      ELSE "task_completed",
             outcome |-> outcome])
    /\ tpc' = AfterCallback(outcome,
                  IF tpc = "notify_started" THEN "starting" ELSE "finished")
    /\ UNCHANGED <<watch, now, wakeAt, stopSet, stopAt, nudged>>
    /\ UNCHANGED <<planVars, rateVars, skillVars, pendVars>>
    /\ UNCHANGED workerVars
    /\ UNCHANGED channelVars

\* The agent begins the task: start_run creates the run row and persists
\* agent_run_started, and heartbeat_loop is started as a task of its own.
WatchStartRun ==
    /\ tpc = "starting"
    /\ events' = Append(events, Ev("agent_run_started", "1"))
    /\ tpc' = "running"
    /\ watch' = "beating"
    /\ now' = 0
    /\ UNCHANGED <<delivered, wakeAt, stopSet, stopAt, nudged>>
    /\ UNCHANGED <<planVars, rateVars, skillVars, pendVars>>
    /\ UNCHANGED <<projectStatus, taskStatus, configVars, pc, ti,
                   currentMilestone, cancel, pauseOpen, loopFor, loopVars,
                   approvalVars, lastTool, runs, budget, chats, cancelAt,
                   raised>>
    /\ UNCHANGED channelVars

\* The agent's task returns: stop_event is set, finish_run_success persists
\* agent_run_succeeded, and _execute_task_with_agent marks the task completed
\* and persists task_completed.
RunEnds ==
    /\ tpc = "running"
    /\ stopSet' = TRUE
    /\ stopAt' = now
    /\ taskStatus' = [taskStatus EXCEPT ![1] = "completed"]
    /\ events' = Append(Append(events, Ev("agent_run_succeeded", "1")),
                        Ev("task_completed", "1"))
    /\ tpc' = "notify_completed"
    /\ UNCHANGED <<delivered, watch, now, wakeAt, nudged>>
    /\ UNCHANGED <<planVars, rateVars, skillVars, pendVars>>
    /\ UNCHANGED <<projectStatus, configVars, pc, ti, currentMilestone, cancel,
                   pauseOpen, loopFor, loopVars, approvalVars, lastTool, runs,
                   budget, chats, cancelAt, raised>>
    /\ UNCHANGED channelVars

\* heartbeat_loop, line 77: store.heartbeat_agent_run takes `took` units and
\* returns or raises (then the handler sleeps max(interval_seconds, 2.0)).
Heartbeat(took, outcome) ==
    /\ watch = "beating"
    /\ now + took <= MaxTime
    /\ now' = now + took
    /\ IF outcome = "ok"
       THEN watch' = "beat" /\ UNCHANGED wakeAt
       ELSE watch' = "sleep" /\ wakeAt' = now + took + HEARTBEAT_INTERVAL
    /\ UNCHANGED <<tpc, delivered, stopSet, stopAt, nudged>>
    /\ UNCHANGED <<planVars, rateVars, skillVars, pendVars>>
    /\ UNCHANGED workerVars
    /\ UNCHANGED channelVars

\* heartbeat_loop, lines 78-91: the nudge, when it is due and was not made,
\* then the wait for stop_event.  `stored` is how store.add_event ends,
\* `outcome` how the callback ends.
NudgeOrWait(stored, outcome) ==
    /\ watch = "beat"
    /\ IF ~nudged /\ now >= NUDGE_AFTER
       THEN /\ nudged' = TRUE
            /\ IF stored = "ok"
               THEN /\ events' = Append(events, Ev("manager_nudge", "1"))
                    /\ delivered' = Append(delivered,
                          [type |-> "manager_nudge", outcome |-> outcome])
                    /\ watch' = "wait"
               ELSE /\ outcome = "ok"
                    /\ watch' = "sleep"
                    /\ UNCHANGED <<events, delivered>>
       ELSE /\ stored = "ok"
            /\ outcome = "ok"
            /\ watch' = "wait"
            /\ UNCHANGED <<nudged, events, delivered>>
    /\ wakeAt' = now + HEARTBEAT_INTERVAL
    /\ UNCHANGED <<tpc, now, stopSet, stopAt>>
    /\ UNCHANGED <<planVars, rateVars, skillVars, pendVars>>
    /\ UNCHANGED <<projectStatus, taskStatus, configVars, pc, ti,
                   currentMilestone, cancel, pauseOpen, loopFor, loopVars,
                   approvalVars, lastTool, runs, budget, chats, cancelAt,
                   raised>>
    /\ UNCHANGED channelVars

\* wait_for(stop_event.wait(), timeout) returns because the event is set, or
\* times out, or the sleep of the handler ends; the loop tests
\* `while not stop_event.is_set()` and either ends or calls the heartbeat.
WaitEnds ==
    /\ \/ watch = "wait" /\ (stopSet \/ now >= wakeAt)
       \/ watch = "sleep" /\ now >= wakeAt
    /\ watch' = IF stopSet THEN "done" ELSE "beating"
    /\ UNCHANGED <<tpc, delivered, now, wakeAt, stopSet, stopAt, nudged>>
    /\ UNCHANGED <<planVars, rateVars, skillVars, pendVars>>
    /\ UNCHANGED workerVars
    /\ UNCHANGED channelVars

\* Time passes while the loop waits or sleeps.
Tick ==
    /\ watch \in {"wait", "sleep"}
    /\ now < wakeAt
    /\ now < MaxTime
    /\ now' = now + 1
    /\ UNCHANGED <<tpc, delivered, watch, wakeAt, stopSet, stopAt, nudged>>
    /\ UNCHANGED <<planVars, rateVars, skillVars, pendVars>>
    /\ UNCHANGED workerVars
    /\ UNCHANGED channelVars

WatcherInit ==
    /\ tpc = "none"
    /\ delivered = <<>>
    /\ watch = "off"
    /\ now = 0
    /\ wakeAt = 0
    /\ stopSet = FALSE
    /\ stopAt = -1
    /\ nudged = FALSE

-----------------------------------------------------------------------------
(* Plans.  The store and the project manager are not among the sources:     *)
(* generate_plan and approve_plan follow the specification; the start of   *)
(* Worker.run is the code.                                                   *)

Projects == {"alpha", "beta"}

ActivePlans(rows, p) ==
    {k \in DOMAIN rows : rows[k].project_id = p /\ rows[k].is_active}

NextVersion(rows, p) ==
    Cardinality({k \in DOMAIN rows : rows[k].project_id = p}) + 1

\* Variant of Deactivate: the prior plans stay as they are.
KeepActive(rows, p) == rows

\* "New plans deactivate the prior active plan."
Deactivate(rows, p) ==
    [k \in DOMAIN rows |->
        IF rows[k].project_id = p THEN [rows[k] EXCEPT !.is_active = FALSE]
        ELSE rows[k]]

\* generate_plan: ideation -> planning; when the model's output parses, the
\* plan is persisted with a new version (is_active defaults to 1) and the
\* prior active plan is deactivated; otherwise the project stays in planning.
GeneratePlan(p, parsed) ==
    /\ projStatus[p] \in {"ideation", "planning"}
    /\ projStatus' = [projStatus EXCEPT ![p] = "planning"]
    /\ IF parsed
       THEN /\ Len(planTable) < MaxPlans
            /\ planTable' = Append(Deactivate(planTable, p),
                  [project_id |-> p, version |-> NextVersion(planTable, p),
                   is_active |-> TRUE])
       ELSE UNCHANGED planTable
    /\ UNCHANGED <<runPos, watcherVars, rateVars, skillVars,
                   pendVars>>
    /\ UNCHANGED workerVars
    /\ UNCHANGED channelVars

\* approve_plan: planning -> approved.
ApprovePlan(p) ==
    /\ projStatus[p] = "planning"
    /\ projStatus' = [projStatus EXCEPT ![p] = "approved"]
    /\ UNCHANGED <<planTable, runPos, watcherVars, rateVars, skillVars,
                   pendVars>>
    /\ UNCHANGED workerVars
    /\ UNCHANGED channelVars

\* Variant of HasActivePlan: the run goes on without a plan.
PlanNotRequired(rows, p) == TRUE

\* Worker.run: `plan = await store.get_active_plan(...)`, `if not plan`.
HasActivePlan(rows, p) == ActivePlans(rows, p) # {}

Workers == 1..MaxWorkers

Running(p) == {w \in Workers : runPos[p][w] \in {"spawned", "got_plan", "try"}}

\* start_execution: from approved, a worker is started for the project (the
\* worker makes the transition to coding itself).
StartExecution(p) ==
    /\ projStatus[p] = "approved"
    /\ \E w \in Workers :
          /\ runPos[p][w] = "idle"
          /\ \A v \in 1..(w - 1) : runPos[p][v] # "idle"
          /\ runPos' = [runPos EXCEPT ![p][w] = "spawned"]
    /\ UNCHANGED <<planTable, projStatus, watcherVars, rateVars, skillVars,
                   pendVars>>
    /\ UNCHANGED workerVars
    /\ UNCHANGED channelVars

\* Worker.run up to `if not plan: return`.
WorkerLoadPlan(p, w) ==
    /\ runPos[p][w] = "spawned"
    /\ runPos' = [runPos EXCEPT ![p][w] =
                    IF HasActivePlan(planTable, p) THEN "got_plan"
                    ELSE "returned"]
    /\ UNCHANGED <<planTable, projStatus, watcherVars, rateVars, skillVars,
                   pendVars>>
    /\ UNCHANGED workerVars
    /\ UNCHANGED channelVars

\* Worker.run: get_tasks, then update_project(status="coding").
WorkerSetCoding(p, w) ==
    /\ runPos[p][w] = "got_plan"
    /\ runPos' = [runPos EXCEPT ![p][w] = "try"]
    /\ projStatus' = [projStatus EXCEPT ![p] = "coding"]
    /\ UNCHANGED <<planTable, watcherVars, rateVars, skillVars,
                   pendVars>>
    /\ UNCHANGED workerVars
    /\ UNCHANGED channelVars

\* The run ends: the project is completed, failed or cancelled.
WorkerEnds(p, w, status) ==
    /\ runPos[p][w] = "try"
    /\ runPos' = [runPos EXCEPT ![p][w] = "returned"]
    /\ projStatus' = [projStatus EXCEPT ![p] = status]
    /\ UNCHANGED <<planTable, watcherVars, rateVars, skillVars,
                   pendVars>>
    /\ UNCHANGED workerVars
    /\ UNCHANGED channelVars

\* --------------------------------------------------------------------------
\* The agent's validator, step 2: the rate limit.

RATE_LIMIT_PER_MINUTE == 30

\* The clock advances in steps of 30 s; the window is 60 s.
RateUnit == 30

RATE_WINDOW == 2

SumUpTo(f, a, b) ==
    LET RECURSIVE S(_)
        S(t) == IF t > b THEN 0 ELSE f[t] + S(t + 1)
    IN S(a)

\* The requests that passed the rate limit in the 60 s ending at `t`.
AcceptedInWindow(t) ==
    SumUpTo(acceptedAt, IF t - RATE_WINDOW + 1 < 0 THEN 0
                        ELSE t - RATE_WINDOW + 1, t)

\* Sliding window: the timestamps younger than 60 s.
Prune(window, t) ==
    SelectSeq(window, LAMBDA ts : t - ts < RATE_WINDOW)

\* Variant of WithinLimit: no throttle.
NoLimit(window) == TRUE

WithinLimit(window) == Len(window) < RATE_LIMIT_PER_MINUTE

\* One inbound action_request reaches step 2 of the validator (the latch is
\* clear). `valid` is the outcome of the later steps (registry, tier, path
\* jail, parameters).
ValidateRequest(valid) ==
    LET window == Prune(rateWindow, rateClock)
        full == AcceptedInWindow(rateClock) >= RATE_LIMIT_PER_MINUTE
    IN /\ IF WithinLimit(window)
          THEN /\ rateWindow' = Append(window, rateClock)
               /\ acceptedAt' = [acceptedAt EXCEPT ![rateClock] = @ + 1]
               /\ lastDecision' =
                     [decision |-> IF valid THEN "executed" ELSE "rejected",
                      full |-> full]
          ELSE /\ rateWindow' = window
               /\ UNCHANGED acceptedAt
               /\ lastDecision' = [decision |-> "rate_limited",
                                   full |-> full]
       /\ UNCHANGED rateClock
       /\ UNCHANGED <<watcherVars, planVars, skillVars, pendVars>>
       /\ UNCHANGED workerVars
       /\ UNCHANGED channelVars

\* 30 s pass on the agent.
RateTick ==
    /\ rateClock < MaxRateClock
    /\ rateClock' = rateClock + 1
    /\ UNCHANGED <<rateWindow, acceptedAt, lastDecision>>
    /\ UNCHANGED <<watcherVars, planVars, skillVars, pendVars>>
    /\ UNCHANGED workerVars
    /\ UNCHANGED channelVars

RateInit ==
    /\ rateClock = 0
    /\ rateWindow = <<>>
    /\ acceptedAt = [t \in 0..MaxRateClock |-> 0]
    /\ lastDecision = [decision |-> "none", full |-> FALSE]


\* --------------------------------------------------------------------------
\* The project tools of the chat model (skills/project_skill.py) and the
\* removal confirmation (bot/commands.py), over `projects` and `ideas`.

ProjectIds == 1..MaxIds

ExistingIds == {r.id : r \in projRows}

RowsNamed(name) == {r \in projRows : r.name = name}

ToolResult(tool, error, case, target, ptr) ==
    [tool |-> tool, error |-> error, case |-> case, target |-> target,
     ptr |-> ptr]

\* pm.create_project on a name that `projects` already holds (name is UNIQUE):
\* the insert fails, or the manager hands back the row it found.
CreateOutcomes == {"raises", "returns_existing"}

\* pm.add_idea on an id that `projects` does not hold (the connection does
\* not enforce the foreign key of `ideas`): the manager refuses, or the row
\* is inserted.
AddIdeaOutcomes == {"raises", "inserts"}

\* execute("project_create", {name}): _create.  "" is a missing name.
SkillCreate(name, outcome) ==
    /\ IF name = ""
       THEN /\ lastResult' = ToolResult("project_create", TRUE, "no_name",
                                        0, lastProjectId)
            /\ UNCHANGED <<projRows, nextId, lastProjectId>>
       ELSE IF RowsNamed(name) = {}
       THEN /\ nextId <= MaxIds
            /\ projRows' = projRows \cup {[id |-> nextId, name |-> name]}
            /\ nextId' = nextId + 1
            /\ lastProjectId' = nextId
            /\ lastResult' = ToolResult("project_create", FALSE, "new",
                                        nextId, nextId)
       ELSE LET row == CHOOSE r \in RowsNamed(name) : TRUE
            IN IF outcome = "raises"
               THEN \* `except Exception` of execute: "ERROR: ..."
                    /\ lastResult' = ToolResult("project_create", TRUE,
                                          "existing", row.id, lastProjectId)
                    /\ UNCHANGED <<projRows, nextId, lastProjectId>>
               ELSE /\ lastProjectId' = row.id
                    /\ lastResult' = ToolResult("project_create", FALSE,
                                          "existing", row.id, row.id)
                    /\ UNCHANGED <<projRows, nextId>>
    /\ UNCHANGED <<ideaCount, addPending, removePending>>
    /\ UNCHANGED <<watcherVars, planVars, rateVars, pendVars>>
    /\ UNCHANGED workerVars
    /\ UNCHANGED channelVars

\* _resolve_project_id: tool_input.get("project_id") or st._last_project_id
\* (0 stands for an absent id and for None).
ResolveProjectId(inputId) ==
    IF inputId # 0 THEN inputId ELSE lastProjectId

\* How a project_add_idea call found the pointer it resolved.
PointerCase(inputId) ==
    IF inputId # 0 THEN "given"
    ELSE IF lastProjectId = 0 THEN "no_pointer"
    ELSE IF lastProjectId \in ExistingIds THEN "live"
    ELSE IF projRows = {} THEN "stale_alone"
    ELSE "stale"

\* execute("project_add_idea", {idea, project_id?}): _add_idea up to and
\* including `await pm.add_idea(project_id, idea)`.
SkillAddIdeaCall(idea, inputId, outcome) ==
    LET pid == ResolveProjectId(inputId)
        case == PointerCase(inputId)
    IN /\ addPending.pid = 0
       /\ inputId < nextId     \* an id the model was shown before
       /\ IF idea = ""
          THEN /\ lastResult' = ToolResult("project_add_idea", TRUE,
                                           "no_idea", 0, lastProjectId)
               /\ UNCHANGED <<ideaCount, addPending>>
          ELSE IF pid = 0
          THEN /\ lastResult' = ToolResult("project_add_idea", TRUE, case,
                                           0, lastProjectId)
               /\ UNCHANGED <<ideaCount, addPending>>
          ELSE IF pid \notin ExistingIds /\ outcome = "raises"
          THEN /\ lastResult' = ToolResult("project_add_idea", TRUE, case,
                                           0, lastProjectId)
               /\ UNCHANGED <<ideaCount, addPending>>
          ELSE /\ ideaCount[pid] < MaxIdeas
               /\ ideaCount' = [ideaCount EXCEPT ![pid] = @ + 1]
               /\ addPending' = [pid |-> pid,
                                 case |-> IF pid \in ExistingIds THEN case
                                          ELSE IF inputId # 0
                                          THEN "given_unknown"
                                          ELSE case \o "_inserted"]
               /\ UNCHANGED lastResult
       /\ UNCHANGED <<projRows, nextId, lastProjectId, removePending>>
       /\ UNCHANGED <<watcherVars, planVars, rateVars, pendVars>>
       /\ UNCHANGED workerVars
       /\ UNCHANGED channelVars

\* _add_idea after pm.add_idea returned: `st._last_project_id = project_id`
\* and "Added idea #n to ...".
SkillAddIdeaReturn ==
    /\ addPending.pid # 0
    /\ lastProjectId' = addPending.pid
    /\ lastResult' = ToolResult("project_add_idea", FALSE, addPending.case,
                                addPending.pid, addPending.pid)
    /\ addPending' = [pid |-> 0, case |-> "none"]
    /\ UNCHANGED <<projRows, nextId, ideaCount, removePending>>
    /\ UNCHANGED <<watcherVars, planVars, rateVars, pendVars>>
    /\ UNCHANGED workerVars
    /\ UNCHANGED channelVars

\* execute("project_status", {project_id?}): _status.
SkillStatus(inputId) ==
    LET pid == ResolveProjectId(inputId)
    IN /\ inputId < nextId
       /\ IF pid \in ExistingIds
          THEN /\ lastProjectId' = pid
               /\ lastResult' = ToolResult("project_status", FALSE, "live",
                                           pid, pid)
          ELSE /\ lastResult' = ToolResult("project_status", FALSE,
                                           "not_found", 0, lastProjectId)
               /\ UNCHANGED lastProjectId
       /\ UNCHANGED <<projRows, nextId, ideaCount, addPending,
                      removePending>>
       /\ UNCHANGED <<watcherVars, planVars, rateVars, pendVars>>
       /\ UNCHANGED workerVars
       /\ UNCHANGED channelVars

\* handle_callback, confirm_remove_project: up to and including
\* `await state._project_manager.remove_project(project_id)`.
RemoveConfirmCall(pid) ==
    /\ removePending = 0
    /\ pid \in ExistingIds
    /\ projRows' = {r \in projRows : r.id # pid}
    /\ removePending' = pid
    /\ UNCHANGED <<nextId, lastProjectId, ideaCount, addPending, lastResult>>
    /\ UNCHANGED <<watcherVars, planVars, rateVars, pendVars>>
    /\ UNCHANGED workerVars
    /\ UNCHANGED channelVars

\* ... `if state._last_project_id == project_id: ... = None`.
RemoveConfirmReturn ==
    /\ removePending # 0
    /\ lastProjectId' = IF lastProjectId = removePending THEN 0
                        ELSE lastProjectId
    /\ removePending' = 0
    /\ UNCHANGED <<projRows, nextId, ideaCount, addPending, lastResult>>
    /\ UNCHANGED <<watcherVars, planVars, rateVars, pendVars>>
    /\ UNCHANGED workerVars
    /\ UNCHANGED channelVars

SkillInit ==
    /\ projRows = {}
    /\ nextId = 1
    /\ lastProjectId = 0
    /\ ideaCount = [i \in ProjectIds |-> 0]
    /\ addPending = [pid |-> 0, case |-> "none"]
    /\ removePending = 0
    /\ lastResult = ToolResult("none", FALSE, "none", 0, 0)

\* --------------------------------------------------------------------------
\* The bot's pending tables: _TTLDict (bot/state.py), the CONFIRM prompts
\* (bot/helpers.py, handle_callback "approve:" / "deny:") and the worker
\* approval prompts (request_worker_approval, "wapprove:" / "wdeny:").

\* Time is counted in units of 300 s.
PendUnit == 300

CONFIRM_TTL == 6        \* _TTLDict(ttl_seconds=1800)

APPROVAL_TTL == 2       \* _TTLDict(ttl_seconds=600)

WAIT_TIMEOUT == 1       \* asyncio.wait_for(future, timeout=300)

\* _TTLDict._evict: drop the entries with now - ts >= ttl.
TTLEvict(d, ttl, t) ==
    [k \in {j \in DOMAIN d : t - d[j] < ttl} |-> d[k]]

\* _TTLDict.__setitem__: evict, then store with the current time.
TTLSet(d, ttl, t, key) ==
    LET kept == TTLEvict(d, ttl, t)
    IN [k \in DOMAIN kept \cup {key} |-> IF k = key THEN t ELSE kept[k]]

\* _TTLDict.pop(key, None): no eviction, no look at the timestamp.
TTLPop(d, key) == [k \in DOMAIN d \ {key} |-> d[k]]

\* _store_pending: a CONFIRM action is put up for approval.
StoreConfirm ==
    /\ confirmCounter < MaxKeys
    /\ confirmCounter' = confirmCounter + 1
    /\ confirms' = TTLSet(confirms, CONFIRM_TTL, pclock, confirmCounter + 1)
    /\ UNCHANGED <<pclock, lastConfirm, approvals, wapprovalCounter, futures,
                   waitStart, returned, acks>>
    /\ UNCHANGED <<watcherVars, planVars, rateVars, skillVars>>
    /\ UNCHANGED workerVars
    /\ UNCHANGED channelVars

\* handle_callback "approve:<key>" / "deny:<key>": pop the entry; Approve
\* on an entry that is there sends the action with confirmed=True.
PressConfirm(k, answer) ==
    /\ k \in 1..confirmCounter
    /\ confirms' = TTLPop(confirms, k)
    /\ lastConfirm' =
          [key |-> k, answer |-> answer,
           age |-> IF k \in DOMAIN confirms THEN pclock - confirms[k] ELSE -1,
           executed |-> answer = "approve" /\ k \in DOMAIN confirms]
    /\ UNCHANGED <<pclock, confirmCounter, approvals, wapprovalCounter,
                   futures, waitStart, returned, acks>>
    /\ UNCHANGED <<watcherVars, planVars, rateVars, skillVars>>
    /\ UNCHANGED workerVars
    /\ UNCHANGED channelVars

\* request_worker_approval past the auto-approve test: a key, a future
\* stored under it (the store evicts stale entries and cancels their
\* futures), the prompt, and the wait begins.
RequestWorkerApproval ==
    /\ wapprovalCounter < MaxKeys
    /\ wapprovalCounter' = wapprovalCounter + 1
    /\ LET key == wapprovalCounter + 1
           kept == TTLEvict(approvals, APPROVAL_TTL, pclock)
       IN /\ approvals' = TTLSet(approvals, APPROVAL_TTL, pclock, key)
          /\ futures' = [k \in 1..MaxKeys |->
                IF k = key THEN "pending"
                ELSE IF k \in DOMAIN approvals \ DOMAIN kept
                        /\ futures[k] = "pending"
                THEN "cancelled" ELSE futures[k]]
          /\ waitStart' = [waitStart EXCEPT ![key] = pclock]
    /\ UNCHANGED <<pclock, confirms, confirmCounter, lastConfirm, returned,
                   acks>>
    /\ UNCHANGED <<watcherVars, planVars, rateVars, skillVars>>
    /\ UNCHANGED workerVars
    /\ UNCHANGED channelVars

\* handle_callback "wapprove:<key>" / "wdeny:<key>": pop; resolve the future
\* if it is there and not done; edit the prompt to APPROVED / DENIED.
PressWorkerButton(k, answer) ==
    /\ k \in 1..wapprovalCounter
    /\ approvals' = TTLPop(approvals, k)
    /\ futures' = IF k \in DOMAIN approvals /\ futures[k] = "pending"
                  THEN [futures EXCEPT ![k] =
                          IF answer = "approve" THEN "True" ELSE "False"]
                  ELSE futures
    /\ acks' = [acks EXCEPT ![k] = @ \cup
                   {IF answer = "approve" THEN "APPROVED" ELSE "DENIED"}]
    /\ UNCHANGED <<pclock, confirms, confirmCounter, lastConfirm,
                   wapprovalCounter, waitStart, returned>>
    /\ UNCHANGED <<watcherVars, planVars, rateVars, skillVars>>
    /\ UNCHANGED workerVars
    /\ UNCHANGED channelVars

\* wait_for returns the future's result to the worker.
WaitReturns(k) ==
    /\ k \in 1..wapprovalCounter
    /\ returned[k] = "none"
    /\ futures[k] \in {"True", "False"}
    /\ returned' = [returned EXCEPT ![k] = futures[k]]
    /\ UNCHANGED <<pclock, confirms, confirmCounter, lastConfirm, approvals,
                   wapprovalCounter, futures, waitStart, acks>>
    /\ UNCHANGED <<watcherVars, planVars, rateVars, skillVars>>
    /\ UNCHANGED workerVars
    /\ UNCHANGED channelVars

\* wait_for times out: the future is cancelled, `except TimeoutError` pops
\* the key and request_worker_approval returns False.
WaitTimesOut(k) ==
    /\ k \in 1..wapprovalCounter
    /\ returned[k] = "none"
    /\ futures[k] = "pending"
    /\ pclock >= waitStart[k] + WAIT_TIMEOUT
    /\ futures' = [futures EXCEPT ![k] = "cancelled"]
    /\ approvals' = TTLPop(approvals, k)
    /\ returned' = [returned EXCEPT ![k] = "False"]
    /\ UNCHANGED <<pclock, confirms, confirmCounter, lastConfirm,
                   wapprovalCounter, waitStart, acks>>
    /\ UNCHANGED <<watcherVars, planVars, rateVars, skillVars>>
    /\ UNCHANGED workerVars
    /\ UNCHANGED channelVars

\* 300 s pass; a wait_for that is due fires first.
PendTick ==
    /\ pclock < MaxPendClock
    /\ \A k \in 1..wapprovalCounter :
          ~(futures[k] = "pending" /\ returned[k] = "none"
              /\ pclock >= waitStart[k] + WAIT_TIMEOUT)
    /\ pclock' = pclock + 1
    /\ UNCHANGED <<confirms, confirmCounter, lastConfirm, approvals,
                   wapprovalCounter, futures, waitStart, returned, acks>>
    /\ UNCHANGED <<watcherVars, planVars, rateVars, skillVars>>
    /\ UNCHANGED workerVars
    /\ UNCHANGED channelVars

PendInit ==
    /\ pclock = 0
    /\ confirms = <<>>
    /\ confirmCounter = 0
    /\ lastConfirm = [key |-> 0, answer |-> "none", age |-> -1,
                      executed |-> FALSE]
    /\ approvals = <<>>
    /\ wapprovalCounter = 0
    /\ futures = [k \in 1..MaxKeys |-> "none"]
    /\ waitStart = [k \in 1..MaxKeys |-> 0]
    /\ returned = [k \in 1..MaxKeys |-> "none"]
    /\ acks = [k \in 1..MaxKeys |-> {}]

PlansInit ==
    /\ planTable = <<>>
    /\ projStatus = [p \in Projects |-> "ideation"]
    /\ runPos = [p \in Projects |-> [w \in Workers |-> "idle"]]

SideInit ==
    WatcherInit /\ PlansInit /\ RateInit /\ SkillInit /\ PendInit

WorkerInit ==
    /\ plan \in Plans
    /\ autoApproveGit \in BOOLEAN
    /\ projectStatus = "approved"
    /\ taskStatus = [t \in 1..Len(plan) |-> "pending"]
    /\ events = <<>>
    /\ pc = "idle"
    /\ ti = 1
    /\ currentMilestone = ""
    /\ cancel = FALSE
    /\ pauseOpen = TRUE
    /\ loopFor = "task"
    /\ rounds = 0
    /\ emptyCount = 0
    /\ escalationIdx = 0
    /\ recentSigs = <<>>
    /\ sigRounds = <<>>
    /\ toolQueue = <<>>
    /\ approvalCounter = 0
    /\ approvalKey = 0
    /\ future = "none"
    /\ lastTool = NoTool
    /\ runs = 0
    /\ budget = MaxBudget
    /\ chats = 0
    /\ cancelAt = "none"
    /\ raised = "none"

\* A worker run, the channel left alone.
Init == WorkerInit /\ ChannelInit(FALSE) /\ SideInit

\* The channel, no worker started.
InitChannel ==
    /\ WorkerInit
    /\ SideInit
    /\ plan = <<"M1">>
    /\ ~autoApproveGit
    /\ \E ssh \in BOOLEAN : ChannelInit(ssh)

Next ==
    \/ \E name \in PlannerTools : PlannerToolCall(name)
    \/ StartRun
    \/ WorkerSetup
    \/ AgentWorkerSetup
    \/ InitAgents
    \/ PreTryRaises
    \/ TaskBoundaryCancel
    \/ TaskBoundaryPause
    \/ PauseWaitResume
    \/ TaskBoundaryStart
    \/ FinalTesting
    \/ LoopHead
    \/ LLMEmpty
    \/ LLMText
    \/ \E calls \in ToolCallLists : LLMToolCalls(calls)
    \/ RouterRaises
    \/ SummaryResponse
    \/ ExecTool
    \/ ApprovalPromptRaises
    \/ ApprovalResult
    \/ ApprovalTimeout
    \/ \E k \in 1..approvalCounter : PressApprove(k)
    \/ \E k \in 1..approvalCounter : PressDeny(k)
    \/ SetCancel
    \/ PauseProject
    \/ ResumeProject

Spec == Init /\ [][Next]_vars

\* One _conversation_loop, from its first round: the loop of the first task
\* of a one-task plan, with providers that answer as long as the loop asks.
LoopBudget == MAX_TOOL_ROUNDS

LoopToolCalls ==
    {<<Sig("file_write", 1)>>, <<Sig("file_write", 1), Sig("file_write", 2)>>}

\* One _conversation_loop of a task, entered with b provider responses left.
InitLoopWith(b) ==
    /\ ChannelInit(FALSE)
    /\ SideInit
    /\ plan = <<"M1">>
    /\ autoApproveGit = FALSE
    /\ projectStatus = "coding"
    /\ taskStatus = <<"in_progress">>
    /\ events = <<Ev("started", ""), Ev("milestone_started", "M1"),
                  Ev("task_started", "1")>>
    /\ pc = "loop_head"
    /\ ti = 1
    /\ currentMilestone = "M1"
    /\ cancel = FALSE
    /\ pauseOpen = TRUE
    /\ loopFor = "task"
    /\ rounds = 0
    /\ emptyCount = 0
    /\ escalationIdx = 0
    /\ recentSigs = <<>>
    /\ sigRounds = <<>>
    /\ toolQueue = <<>>
    /\ approvalCounter = 0
    /\ approvalKey = 0
    /\ future = "none"
    /\ lastTool = NoTool
    /\ runs = 1
    /\ budget = b
    /\ chats = 0
    /\ cancelAt = "none"
    /\ raised = "none"

InitLoop == InitLoopWith(LoopBudget)

LoopNext ==
    \/ LoopHead
    \/ LLMEmpty
    \/ LLMText
    \/ \E calls \in LoopToolCalls : LLMToolCalls(calls)
    \/ ExecTool
    \/ RouterRaises
    \/ SummaryResponse

SpecLoop == InitLoop /\ [][LoopNext]_vars

\* The same loop with more provider responses left than it can consume, so
\* that every kind of response is possible at every call.
FreeBudget == 4 * MAX_TOOL_ROUNDS

InitLoopFree == InitLoopWith(FreeBudget)

SpecLoopFree == InitLoopFree /\ [][LoopNext]_vars

\* One task of a one-task plan, executed by an agent under the watcher.
InitWatcher ==
    /\ WorkerInit
    /\ ChannelInit(FALSE)
    /\ SideInit
    /\ plan = <<"M1">>
    /\ autoApproveGit = FALSE

WatcherNext ==
    \/ TaskStart
    \/ \E outcome \in CallbackOutcomes : NotifyDeliver(outcome)
    \/ WatchStartRun
    \/ RunEnds
    \/ \E took \in 0..MaxBeat, outcome \in {"ok", "raises"} :
          Heartbeat(took, outcome)
    \/ \E stored \in {"ok", "raises"}, outcome \in CallbackOutcomes :
          NudgeOrWait(stored, outcome)
    \/ WaitEnds
    \/ Tick

SpecWatcher == InitWatcher /\ [][WatcherNext]_vars

InitPlans ==
    /\ WorkerInit
    /\ ChannelInit(FALSE)
    /\ SideInit
    /\ plan = <<"M1">>
    /\ autoApproveGit = FALSE

PlansNext ==
    \/ \E p \in Projects, parsed \in BOOLEAN : GeneratePlan(p, parsed)
    \/ \E p \in Projects : ApprovePlan(p)
    \/ \E p \in Projects : StartExecution(p)
    \/ \E p \in Projects, w \in Workers : WorkerLoadPlan(p, w)
    \/ \E p \in Projects, w \in Workers : WorkerSetCoding(p, w)
    \/ \E p \in Projects, w \in Workers,
          status \in {"completed", "failed", "cancelled"} :
          WorkerEnds(p, w, status)

SpecPlans == InitPlans /\ [][PlansNext]_vars

\* The validator's rate limit alone.
InitRate ==
    /\ WorkerInit
    /\ ChannelInit(FALSE)
    /\ SideInit
    /\ plan = <<"M1">>
    /\ autoApproveGit = FALSE

RateNext ==
    \/ \E valid \in BOOLEAN : ValidateRequest(valid)
    \/ RateTick

SpecRate == InitRate /\ [][RateNext]_vars

\* The project tools and the removal confirmation.
InitSkill ==
    /\ WorkerInit
    /\ ChannelInit(FALSE)
    /\ SideInit
    /\ plan = <<"M1">>
    /\ autoApproveGit = FALSE

SkillNext ==
    \/ \E name \in Projects \cup {""}, outcome \in CreateOutcomes :
          SkillCreate(name, outcome)
    \/ \E idea \in {"", "idea"}, inputId \in {0} \cup ProjectIds,
          outcome \in AddIdeaOutcomes :
          SkillAddIdeaCall(idea, inputId, outcome)
    \/ SkillAddIdeaReturn
    \/ \E inputId \in {0} \cup ProjectIds : SkillStatus(inputId)
    \/ \E pid \in ProjectIds : RemoveConfirmCall(pid)
    \/ RemoveConfirmReturn

SpecSkill == InitSkill /\ [][SkillNext]_vars

InitPending ==
    /\ WorkerInit
    /\ ChannelInit(FALSE)
    /\ SideInit
    /\ plan = <<"M1">>
    /\ autoApproveGit = FALSE

\* The CONFIRM prompts of the bot.
ConfirmsNext ==
    \/ StoreConfirm
    \/ \E k \in 1..MaxKeys, answer \in {"approve", "deny"} :
          PressConfirm(k, answer)
    \/ PendTick

SpecConfirms == InitPending /\ [][ConfirmsNext]_vars

\* The worker approval prompts of the bot.
ApprovalsNext ==
    \/ RequestWorkerApproval
    \/ \E k \in 1..MaxKeys, answer \in {"approve", "deny"} :
          PressWorkerButton(k, answer)
    \/ \E k \in 1..MaxKeys : WaitReturns(k)
    \/ \E k \in 1..MaxKeys : WaitTimesOut(k)
    \/ PendTick

SpecApprovals == InitPending /\ [][ApprovalsNext]_vars

\* The channel alone, no worker run.
ChannelNext ==
    \/ AgentConnect
    \/ AgentDisconnect
    \/ \E in \in ActionInputs, st \in {"ok", "error"} :
          HandleAction(in[1], in[2], st)
    \/ \E body \in BadBodies : HandleMalformed(body)
    \/ HandleEmergencyStop
    \/ HandleResume
    \/ \E p \in {"none", "approve", "deny"} : AgentReceive(p)
    \/ GatewayReceive
    \/ \E id \in pending : ActionTimeout(id)

SpecChannel == InitChannel /\ [][ChannelNext]_vars

-----------------------------------------------------------------------------
(* Claims about the worker *)

EventTypes == {events[k].type : k \in 1..Len(events)}

InProgress == {t \in 1..NumTasks : taskStatus[t] = "in_progress"}

RunEnded == pc = "idle" /\ runs > 0

Forwarded == lastTool.via = "agent"

C4_CancelledRunEndsCancelled ==
    (RunEnded /\ cancelAt = "task" /\ raised = "none")
        => projectStatus = "cancelled"

AllowedEdge(a, b) ==
    \/ a = "pending" /\ b = "in_progress"
    \/ a = "in_progress" /\ b \in {"completed", "failed", "skipped"}

\* C6: every change of a task's status follows pending -> in_progress ->
\* {completed, failed, skipped}, over any sequence of runs on the plan.
C6_TaskStatusEdges ==
    [][\A t \in 1..NumTasks :
          taskStatus'[t] # taskStatus[t]
              => AllowedEdge(taskStatus[t], taskStatus'[t])]_vars

\* C7: at any time at most one task of the project is in_progress.
C7_AtMostOneInProgress == Cardinality(InProgress) <= 1

\* C8: a run ended by an exception leaves the project failed and has emitted
\* an error event.
C8_ExceptionFailsProject ==
    (RunEnded /\ raised # "none")
        => (projectStatus = "failed" /\ "error" \in EventTypes)

\* C9: when a task fails (its tool loop raises), the run leaves that task
\* marked failed and the project not moved to failed.
C9_TaskFailureKeepsProject ==
    (RunEnded /\ raised = "task")
        => (taskStatus[ti] = "failed" /\ projectStatus # "failed")

\* C10: no tool call is dispatched while the cancel flag is set or the pause
\* gate is closed.
C10_NoDispatchCancelledOrPaused ==
    lastTool.via \in {"agent", "searcher"}
        => (~lastTool.cancelSet /\ ~lastTool.paused)

\* Position of the first event of a type in the run's events (0: none).
FirstPos(type) ==
    IF \E k \in 1..Len(events) : events[k].type = type
    THEN CHOOSE k \in 1..Len(events) :
            /\ events[k].type = type
            /\ \A j \in 1..(k - 1) : events[j].type # type
    ELSE 0

RECURSIVE InOrder(_)
InOrder(types) ==
    IF Len(types) < 2 THEN TRUE
    ELSE /\ FirstPos(types[1]) > 0
         /\ FirstPos(types[1]) < FirstPos(types[2])
         /\ InOrder(Tail(types))

\* C11: a successful run of a plan with one milestone holding one task
\* emits started, milestone_started, task_started, task_completed,
\* milestone_review, testing, completed, in this relative order.
C11_EventOrder ==
    (RunEnded /\ projectStatus = "completed" /\ NumTasks = 1)
        => InOrder(<<"started", "milestone_started", "task_started",
                     "task_completed", "milestone_review", "testing",
                     "completed">>)

\* C12: the status completed is only ever reached from testing.
C12_CompletedOnlyFromTesting ==
    [][(projectStatus' = "completed" /\ projectStatus # "completed")
          => projectStatus = "testing"]_vars

\* C13: one _conversation_loop calls the router with tool schemas at most
\* MAX_TOOL_ROUNDS times.
C13_AtMostMaxRoundsChats == chats <= MAX_TOOL_ROUNDS

\* The step of an empty response: the loop goes back to its head or leaves
\* for the summary call.
EmptyStep == pc = "awaiting_llm" /\ pc' \in {"loop_head", "summary"}

\* C14: the third empty response in a row advances the escalation chain by
\* exactly one provider, which the next call prefers; an earlier empty
\* response leaves the chain alone; no empty response changes the status
\* of a task.
C14_ThirdEmptyEscalatesOnce ==
    [][EmptyStep =>
          /\ IF emptyCount = 2
             THEN /\ escalationIdx' = escalationIdx + 1
                  /\ emptyCount' = 0
                  /\ pc' = "loop_head"
                        => Preferred' = ESCALATION_CHAIN[escalationIdx + 2]
             ELSE /\ escalationIdx' = escalationIdx
                  /\ emptyCount' = emptyCount + 1
                  /\ Preferred' = Preferred
          /\ taskStatus' = taskStatus]_vars

\* The first provider answered empty three times in a row, the fourth call
\* went out preferring the second provider and was answered with tool calls.
C14_Witness ==
    /\ pc = "exec_tools"
    /\ chats = 4
    /\ rounds = 0
    /\ escalationIdx = 1
    /\ Preferred = "groq"
    /\ taskStatus[ti] = "in_progress"

\* C15: once the escalation chain is exhausted the tool loop is over: it is
\* not executing tool calls nor calling the router with tools again.
C15_ExhaustedLoopEnds ==
    escalationIdx >= Len(ESCALATION_CHAIN)
        => pc \notin {"loop_head", "awaiting_llm", "exec_tools",
                      "awaiting_approval"}

-----------------------------------------------------------------------------
(* Claims on the action dispatch channel *)

Ran(id) == requests[id].ran # "none"

\* The requests send_action dispatched to the agent.
Dispatched == {id \in DOMAIN requests : requests[id].via = "agent"}

TransportErrors == {"timeout", "agent_disconnected", "superseded"}

\* C1: an AUTO action submitted through POST /action after POST
\* /emergency-stop was answered emergency_stop_sent, and before POST /resume,
\* is executed by no executor, agent or fallback.
C1_StoppedAutoNeverRuns ==
    \A id \in DOMAIN requests :
        (requests[id].stopped = "emergency_stop_sent"
            /\ requests[id].action \in AUTO_ACTIONS) => ~Ran(id)

C5_ExactlyOneOutcome ==
    \A id \in Dispatched :
        /\ Len(outcomes[id]) <= 1
        /\ (Len(outcomes[id]) = 0) <=> (id \in pending)
        /\ \A k \in DOMAIN outcomes[id] :
              LET o == outcomes[id][k]
              IN  /\ o.kind \in {"response"} \cup TransportErrors
                  /\ o.kind = "response" <=> o.http = 200
                  /\ o.kind = "timeout" <=> o.http = 504

\* A request failed with superseded while its response was still on the
\* way, and that was all its caller observed.
C5_Witness ==
    \E id \in DOMAIN requests :
        /\ Len(outcomes[id]) = 1
        /\ outcomes[id][1].kind = "superseded"
        /\ requests[id].ran = "agent"

\* C20: a tool call that neither requires individual approval nor is
\* plan-auto-approved reaches the agent with confirmed = false.
C20_UnlistedForwardedUnconfirmed ==
    (Forwarded /\ lastTool.tool \notin ALWAYS_CONFIRM
               /\ lastTool.tool \notin PLAN_AUTO_APPROVED)
        => ~lastTool.confirmed

\* C21: every web_search tool call is executed on the agent, through the
\* action channel; the gateway never runs the search itself.
C21_WebSearchOnAgent ==
    (lastTool.tool = "web_search" /\ lastTool.via # "none")
        => lastTool.via = "agent"

\* C24: no tool handler raises into the tool loop: every tool call that was
\* executed has a string result (the handler's or an error string) and the
\* loop goes on with it.
C24_ToolCallsYieldStrings ==
    lastTool.tool # "none" => lastTool.via # "raised"

\* C27: an approval request that is no longer waited for resolved to the
\* operator's answer or, after 300 s, to false: it ended in no other way.
C27_ApprovalResolvesBoolean ==
    (lastTool.key # 0 /\ pc # "awaiting_approval")
        => lastTool.answer \in {"approve", "deny", "expired"}

\* C22: every project event is both persisted and delivered to the progress
\* callback: outside a _notify, which persists first and delivers next, each
\* event type has as many project_events rows as callback calls.
C22_PersistedIffDelivered ==
    tpc \notin {"notify_started", "notify_completed"}
        => \A k \in DOMAIN events :
              Count(events, events[k].type) = Count(delivered, events[k].type)

\* C23: a progress callback that raises does not abort its caller: the
\* exception goes no further, the task (or the watcher's loop) goes on from
\* where a callback that returned would have left it, and neither the
\* project's nor the task's status changes.
C23_CallbackErrorSwallowed ==
    [][(Len(delivered') > Len(delivered)
          /\ delivered'[Len(delivered')].outcome = "raises")
         => /\ projectStatus' = projectStatus
            /\ taskStatus' = taskStatus
            /\ LET type == delivered'[Len(delivered')].type
               IN  /\ type = "task_started" => tpc' = "starting"
                   /\ type = "task_completed" => tpc' = "finished"
                   /\ type = "manager_nudge"
                        => tpc' = tpc /\ watch' = "wait"
      ]_vars

\* The callback raised on task_started, and the task was executed and
\* completed all the same.
C23_Witness ==
    /\ tpc = "finished"
    /\ taskStatus[1] = "completed"
    /\ \E k \in DOMAIN delivered :
          delivered[k] = [type |-> "task_started", outcome |-> "raises"]

\* C26: a run that completed later than 120 s after its watcher started has
\* exactly one manager_nudge event.
C26_OneNudgePerLongRun ==
    (watch = "done" /\ stopAt > NUDGE_AFTER)
        => Count(events, "manager_nudge") = 1

\* C25: when the pause gate is closed as the worker reaches the pause test
\* of a task boundary, it emits paused and waits; while the gate stays
\* closed it starts no task and emits nothing; and when it goes on, resumed
\* is emitted before the task's task_started.
C25_PauseGate ==
    [][/\ (pc = "task_boundary" /\ ti <= NumTasks /\ ~cancel /\ ~pauseOpen
             /\ pc' # pc)
            => /\ pc' = "pause_wait"
               /\ events' = Append(events, Ev("paused", ""))
               /\ taskStatus' = taskStatus
       /\ (pc = "pause_wait" /\ ~pauseOpen)
            => /\ pc' = "pause_wait"
               /\ events' = events
               /\ taskStatus' = taskStatus
       /\ (pc = "pause_wait" /\ pc' # "pause_wait")
            => /\ Len(events') >= Len(events) + 2
               /\ events'[Len(events) + 1].type = "resumed"
               /\ events'[Len(events')] = Ev("task_started", ToString(ti))
               /\ \A k \in 1..Len(events) : events'[k] = events[k]
      ]_vars

\* The run paused before its first task, was resumed, and started the task.
C25_Witness ==
    /\ Len(events) >= 4
    /\ events[2].type = "paused"
    /\ events[3].type = "resumed"
    /\ events[Len(events)] = Ev("task_started", "1")
    /\ taskStatus[1] = "in_progress"

\* C28: after any sequence of plan generations, no project has more than
\* one plan with is_active = true, and the active one is the newest.
C28_AtMostOneActivePlan ==
    \A p \in Projects :
        /\ Cardinality(ActivePlans(planTable, p)) <= 1
        /\ \A k \in ActivePlans(planTable, p) :
              planTable[k].version = NextVersion(planTable, p) - 1

\* A project has two plans; the first was deactivated by the second.
C28_Witness ==
    \E i, j \in DOMAIN planTable :
        /\ i < j
        /\ planTable[i].project_id = planTable[j].project_id
        /\ ~planTable[i].is_active
        /\ planTable[j].is_active

\* C29: a project whose status is coding or testing has an active plan.
C29_CodingHasActivePlan ==
    \A p \in Projects :
        projStatus[p] \in {"coding", "testing"}
            => ActivePlans(planTable, p) # {}

\* One project is coding on its second plan while the other, approved
\* without a plan, had its run return at once.
C29_Witness ==
    \E p, q \in Projects :
        /\ projStatus[p] = "coding"
        /\ Cardinality({k \in DOMAIN planTable :
                           planTable[k].project_id = p}) = 2
        /\ projStatus[q] = "approved"
        /\ runPos[q][1] = "returned"
        /\ ActivePlans(planTable, q) = {}

\* C30: in any sliding 60-second window the agent lets at most
\* RATE_LIMIT_PER_MINUTE (30) action requests through, and a request that
\* arrives when the 60 s before it already hold 30 is answered rate_limited
\* and is not executed.
C30_RateLimited ==
    /\ \A t \in 0..MaxRateClock :
          AcceptedInWindow(t) <= RATE_LIMIT_PER_MINUTE
    /\ lastDecision.full => lastDecision.decision = "rate_limited"

\* The 31st request of a window that slid: requests older than 60 s have
\* left it, 30 younger ones are spread over two clock values, and the latest
\* request was answered rate_limited.
C30_Witness ==
    /\ rateClock >= 2
    /\ \E t \in 0..(rateClock - 2) : acceptedAt[t] > 0
    /\ acceptedAt[rateClock] > 0
    /\ acceptedAt[rateClock - 1] > 0
    /\ AcceptedInWindow(rateClock) = RATE_LIMIT_PER_MINUTE
    /\ lastDecision = [decision |-> "rate_limited", full |-> TRUE]

\* C31: project_create for a name that already exists does not return an
\* error, leaves exactly one project with that name, and sets the
\* active-project pointer to it.
C31_CreateExistingActivates ==
    /\ \A name \in Projects : Cardinality(RowsNamed(name)) <= 1
    /\ (lastResult.tool = "project_create" /\ lastResult.case = "existing")
          => /\ ~lastResult.error
             /\ lastResult.ptr = lastResult.target

\* C32: project_add_idea called while the active-project pointer refers to
\* a project that does not exist (and another project exists) returns no
\* error, adds the idea to an existing project and repoints the pointer to
\* that project.
C32_StaleAddIdeaRecovers ==
    /\ (lastResult.tool = "project_add_idea" /\ lastResult.case = "stale")
          => ~lastResult.error
    /\ lastResult.case # "stale_inserted"

\* The number of times `sig` occurs in the responses `rs`.
Occurrences(sig, rs) ==
    LET RECURSIVE N(_)
        N(k) == IF k > Len(rs) THEN 0
                ELSE Cardinality({j \in 1..Len(rs[k]) : rs[k][j] = sig})
                     + N(k + 1)
    IN N(1)

\* C33: a response with tool calls advances the escalation chain when, and
\* only when, one of its tool calls (name plus canonical input) has appeared
\* three times within the last three rounds, the response included.
C33_LoopDetectedAtThird ==
    [][(pc = "awaiting_llm" /\ pc' = "exec_tools")
         => ((escalationIdx' > escalationIdx)
               <=> \E k \in 1..Len(toolQueue') :
                      Occurrences(toolQueue'[k], sigRounds') >= 3)]_vars

\* C34: a worker run that has set the project status to coding ends with the
\* project completed, failed or cancelled, never still in coding (every run
\* that got past its two guards sets coding before anything else).
C34_CodingRunEndsTerminal ==
    RunEnded => projectStatus \in {"completed", "failed", "cancelled"}

\* C35: when cancel was signalled while the worker waits on the pause gate,
\* the worker's next step moves the project to cancelled and starts no task.
C35_CancelWhilePaused ==
    [][(pc = "pause_wait" /\ cancel /\ pc' # pc)
         => /\ projectStatus' = "cancelled"
            /\ taskStatus' = taskStatus
            /\ "task_started" \notin
                  {events'[k].type : k \in (Len(events) + 1)..Len(events')}
      ]_vars

\* C36: the APPROVED acknowledgement is shown on a worker approval prompt
\* only if that approval request returns true to the worker (its future was
\* resolved with True).
C36_ApprovedAckMeansApproved ==
    \A k \in 1..MaxKeys :
        "APPROVED" \in acks[k]
            => (futures[k] = "True" /\ returned[k] \in {"none", "True"})

\* C40: Approve on a pending CONFIRM action whose entry is older than its
\* TTL (1800 s) executes nothing.
C40_ExpiredConfirmNotExecuted ==
    lastConfirm.executed => lastConfirm.age < CONFIRM_TTL

\* C37: at most one worker runs for a given project at any time, however
\* often approval and start of execution are triggered.
C37_OneWorkerPerProject ==
    \A p \in Projects : Cardinality(Running(p)) <= 1

\* The most router.chat calls with tools one loop can make: every tool round
\* preceded by two empty responses, and the chain advanced by three empty
\* responses in a row as often as it can be without being exhausted.
MaxLoopChats ==
    MAX_EMPTY_RETRIES * (MAX_TOOL_ROUNDS + Len(ESCALATION_CHAIN) - 1)

\* C38: whatever the providers answer (empty, text or tool calls, in any
\* order), one tool loop makes a bounded number of router calls: at most
\* MaxLoopChats calls with tools, and every answer stays possible at each
\* of them.
C38_BoundedRouterCalls ==
    /\ chats <= MaxLoopChats
    /\ pc = "awaiting_llm" => budget > 0

\* The loop made as many calls as it can and has left for the summary call.
C38_Witness ==
    /\ pc = "summary"
    /\ chats = MaxLoopChats
    /\ budget > 0

\* The tool loop of a task left its while loop at the cancel test: neither
\* the rounds nor the escalation chain were used up.
InterruptedByCancel ==
    /\ pc = "summary"
    /\ loopFor = "task"
    /\ cancel
    /\ rounds < MAX_TOOL_ROUNDS
    /\ escalationIdx < Len(ESCALATION_CHAIN)

\* C39: a task whose tool loop was interrupted by the cancel flag is not
\* recorded as completed.
C39_InterruptedTaskNotCompleted ==
    [][(InterruptedByCancel /\ pc' # pc)
         => taskStatus'[ti] # "completed"]_vars

ActiveConns == {k \in DOMAIN conns : conns[k] = "active"}

OneActive ==
    /\ Cardinality(ActiveConns) <= 1
    /\ agentConn <=> (ActiveConns # {})
    /\ ActiveConns \subseteq {Len(conns)}
    /\ \A i \in DOMAIN wire : wire[i].conn \in ActiveConns

\* C16: at every moment at most one agent connection is the active one; a
\* new authentication closes the connection that was active with reason
\* "superseded" (its pending requests fail with that reason), and a request
\* dispatched afterwards is written to the new connection only.
C16_OneActiveConnection ==
    [][/\ OneActive'
       /\ (agentConn /\ agentConn' /\ conns' # conns)
            => /\ conns'[Len(conns') - 1] = "superseded"
               /\ \A id \in pending :
                     outcomes'[id] = <<[kind |-> "superseded", http |-> 503]>>
       /\ (Len(requests') > Len(requests)
             /\ requests'[Len(requests')].via = "agent")
            => LET m == wire'[Len(wire')]
               IN  /\ m.id = Len(requests')
                   /\ m.conn = Len(conns)
                   /\ conns[m.conn] = "active"
      ]_vars

\* The first connection was superseded by the second, and a request
\* submitted afterwards is on its way to the second.
C16_Witness ==
    /\ conns = <<"superseded", "active">>
    /\ \E i \in DOMAIN wire :
          wire[i].type = "action_request" /\ wire[i].conn = 2

NoExecutor ==
    {id \in DOMAIN requests :
        /\ requests[id].body = "ok"
        /\ ~requests[id].connected
        /\ ~sshConfigured}

\* C17: a well-formed POST /action submitted while no agent is connected
\* and no fallback executor is configured is answered 503, and nothing runs:
\* it is neither put on the wire nor given to the fallback.
C17_NoExecutorIs503 ==
    \A id \in NoExecutor :
        /\ Len(outcomes[id]) = 1
        /\ outcomes[id][1].http = 503
        /\ requests[id].ran = "none"
        /\ id \notin pending
        /\ \A i \in DOMAIN wire : wire[i].id # id

\* A confirmed git_push was submitted with neither executor there, and an
\* agent connected afterwards.
C17_Witness ==
    \E id \in NoExecutor :
        /\ requests[id].action = "git_push"
        /\ requests[id].confirmed
        /\ outcomes[id] = <<[kind |-> "no_executor", http |-> 503]>>
        /\ agentConn

\* C18: every malformed POST /action (not JSON, not a JSON object, action
\* missing or not a string) is answered 400 and is forwarded neither to the
\* agent nor to the fallback executor.
C18_MalformedIs400 ==
    \A id \in DOMAIN requests :
        requests[id].body # "ok"
            => /\ Len(outcomes[id]) = 1
               /\ outcomes[id][1].http = 400
               /\ requests[id].via = "none"
               /\ requests[id].ran = "none"
               /\ id \notin pending

\* C19: an AUTO action submitted after POST /emergency-stop and then a
\* POST /resume that was answered 200 is never rejected by the latch: the
\* agent executes it.
C19_ResumeRestoresAuto ==
    \A k \in DOMAIN back :
        LET r == requests[back[k].id]
        IN  (r.action \in AUTO_ACTIONS
             /\ r.stopped \in {"resume_sent", "resume_not_applicable"})
                => back[k].decision = "execute"

=============================================================================
